---- MODULE Spec2Model ----
(***************************************************************************)
(* Model of SeiOracleProvider (src/src/providers/sei-oracle.ts): the price *)
(* cascade getPrice with its five adapters and the price cache, and the    *)
(* funding-rate fan-out getFundingRates with its cache.                    *)
(*                                                                         *)
(* Execution model: one JavaScript event loop.  A call runs synchronously  *)
(* from one await to the next; every action below is one such run.         *)
(*                                                                         *)
(* JavaScript numbers are records: [k |-> "fin", v |-> n] is the finite    *)
(* number n / 10^Scale, and [k |-> "nan"], [k |-> "inf"], [k |-> "ninf"]   *)
(* are NaN, +Infinity and -Infinity.  Times are integers (milliseconds).   *)
(***************************************************************************)
EXTENDS Integers, Sequences, FiniteSets, TLC

(* ------------------------------ bounds --------------------------------- *)

\* getPrice calls that may be in progress at the same time
MaxCalls == 2

\* getFundingRates calls that may be in progress at the same time
MaxFCalls == 1

\* getPrice and getFundingRates calls started in one behaviour
MaxStarts == 2

\* advances of the clock in one behaviour
MaxTicks == 1

\* startPriceUpdates and stopPriceUpdates calls in one behaviour
MaxOps == 3

\* runs of the timer callback in one behaviour
MaxRuns == 1

\* oracleProvider.get calls in one behaviour
MaxGets == 2

\* decimal digits kept of a finite JavaScript number
Scale == 2

\* the clock at Init (two hours, so that one-hour-old observations exist)
T0 == 7200000

(* --------------------------- program constants ------------------------- *)

\* config.updateInterval, seconds
updateInterval == 30

\* getYeiMultiOraclePrice: now - timestampMs > 3600000 only warns
StaleMs == 3600000

\* getAPI3Price: now - timestamp > 3600 throws
StaleSec == 3600

\* getAPI3Price: Number(result[0]) / 1e18
API3Decimals == 18

\* getRedstonePrice: Number(result[0]) / 1e8
RedstoneDecimals == 8

\* funding-rate annualisation factor
Annualize == 8760

\* confidence of the YEI Multi-Oracle adapter, in hundredths (0.98)
ConfYeiMulti == 98

\* confidence of CoinGecko, the legacy cascade and Binance, in hundredths (0.95)
ConfDefault == 95

\* Math.pow(10, e) is Infinity from this exponent on
PowOverflow == 309

\* Math.pow(10, e) is 0 from this exponent down
PowUnderflow == -324

(* --------------------------- JavaScript values ------------------------- *)

Null == [k |-> "null"]
Throw == [k |-> "throw"]
Undefined == [k |-> "undefined"]

NaN == [k |-> "nan"]
PosInf == [k |-> "inf"]
NegInf == [k |-> "ninf"]
Fin(n) == [k |-> "fin", v |-> n]

\* isNaN(x) for a number, and for undefined (which converts to NaN)
isNaN(x) == x.k \in {"nan", "undefined"}

\* x > 0
GtZero(x) == x.k = "inf" \/ (x.k = "fin" /\ x.v > 0)

\* x <= 0
LeZero(x) == x.k = "ninf" \/ (x.k = "fin" /\ x.v <= 0)

\* the truthiness of a number or of undefined
Truthy(x) == x.k \in {"inf", "ninf"} \/ (x.k = "fin" /\ x.v # 0)

\* Number.isFinite
IsFinite(x) == x.k = "fin"

RECURSIVE Pow10(_)
Pow10(n) == IF n <= 0 THEN 1 ELSE 10 * Pow10(n - 1)

\* Number(n) * Math.pow(10, e) for an integer n
MulPow10(n, e) ==
    IF e >= PowOverflow
    THEN (IF n > 0 THEN PosInf ELSE IF n < 0 THEN NegInf ELSE NaN)
    ELSE IF e <= PowUnderflow THEN Fin(0)
    ELSE IF e + Scale >= 0 THEN Fin(n * Pow10(e + Scale))
    ELSE Fin(n \div Pow10(0 - (e + Scale)))

\* Number(n) / Math.pow(10, d) for an integer n and a uint8 d
DivPow10Up(n, d) == MulPow10(n, d)
DivPow10(n, d) == MulPow10(n, 0 - d)

\* the bigint m * 10^z: an on-chain integer too large to be written out
Big(m, z) == [m |-> m, z |-> z]

\* Number(b) / 10^d for a bigint b and a literal divisor 1e18 or 1e8
BigDivPow10(b, d) == IF b.m = 0 THEN Fin(0) ELSE MulPow10(b.m, b.z - d)

\* x * c for a number x and a positive integer c
MulInt(x, c) == IF x.k = "fin" THEN Fin(x.v * c) ELSE x

\* the number h / 100 for an integer h
Hundredths(h) == MulPow10(h, 0 - 2)

\* try { body } catch { handler }: a fault raised in the body is absorbed
TryCatchRethrows(body, handler) == body
TryCatch(body, handler) == IF body.k = "throw" THEN handler ELSE body

(* ------------------------------ symbols -------------------------------- *)

\* the symbols callers ask for; no adapter knows DOGE
Symbols == {"SEI", "BTC", "SOL", "DOGE"}

\* one ticker as callers may write it
CaseSymbols == {"BTC", "btc"}

\* the symbols callers ask funding rates for
FundingSymbols == {"SEI", "BTC"}

\* String.prototype.toUpperCase on the tickers of the model
ToUpper(s) ==
    CASE s = "sei" -> "SEI"
      [] s = "btc" -> "BTC"
      [] s = "sol" -> "SOL"
      [] OTHER -> s

\* yeiMultiOracleAddresses: BTC has no default address
YeiMultiOracleSymbols == {"SEI", "USDC", "USDT", "ETH"}

\* config.pythPriceFeeds
PythFeedSymbols == {"BTC", "ETH", "SEI", "USDC"}

\* coinGeckoIds
CoinGeckoSymbols ==
    {"BTC", "ETH", "SEI", "USDC", "USDT", "SOL", "AVAX", "ATOM", "DAI"}

\* getCexPrice supportedSymbols
CexSupportedSymbolsAny ==
    {"BTC", "ETH", "SEI", "USDC", "SOL", "AVAX", "DOGE"}
CexSupportedSymbols == {"BTC", "ETH", "SEI", "USDC", "SOL", "AVAX"}

\* getPrice yeiSupportedSymbols
yeiSupportedSymbols == {"BTC", "ETH", "SEI", "USDC", "USDT"}

\* getAPI3dApiId dApiIds
API3Symbols == {"BTC", "ETH", "SEI", "USDC"}

\* getRedstonePrice: USDT and USDC only
RedstoneSymbols == {"USDT", "USDC"}

(* ------------------------------- quotes -------------------------------- *)

Quote(symbol, price, timestamp, source, confidence) ==
    [k |-> "quote", symbol |-> symbol, price |-> price,
     timestamp |-> timestamp, source |-> source, confidence |-> confidence]

(* ------------------------- strings in payloads ------------------------- *)

\* a JSON string field, as its sequence of characters
Str(chars) == [k |-> "str", chars |-> chars]

\* an integral JavaScript number (a time in milliseconds)
IntNum(n) == [k |-> "int", v |-> n]

Digits == {"0", "1", "2", "3", "4", "5", "6", "7", "8", "9"}

DigitVal(c) ==
    CASE c = "0" -> 0 [] c = "1" -> 1 [] c = "2" -> 2 [] c = "3" -> 3
      [] c = "4" -> 4 [] c = "5" -> 5 [] c = "6" -> 6 [] c = "7" -> 7
      [] c = "8" -> 8 [] c = "9" -> 9

\* the number of leading blanks of c from position i
RECURSIVE BlanksFrom(_, _)
BlanksFrom(c, i) ==
    IF i <= Len(c) /\ c[i] = " " THEN 1 + BlanksFrom(c, i + 1) ELSE 0

\* the number of consecutive digits of c from position i
RECURSIVE DigitsFrom(_, _)
DigitsFrom(c, i) ==
    IF i <= Len(c) /\ c[i] \in Digits THEN 1 + DigitsFrom(c, i + 1) ELSE 0

\* the value of the n digits of c from position i, continuing from acc
RECURSIVE DigitsValue(_, _, _, _)
DigitsValue(c, i, n, acc) ==
    IF n = 0 THEN acc
    ELSE DigitsValue(c, i + 1, n - 1, 10 * acc + DigitVal(c[i]))

InfinityChars == <<"I", "n", "f", "i", "n", "i", "t", "y">>

HasPrefixAt(c, i, pre) ==
    /\ i + Len(pre) - 1 <= Len(c)
    /\ \A j \in 1..Len(pre) : c[i + j - 1] = pre[j]

\* parseFloat(field): the longest numeric prefix, NaN when there is none
parseFloat(field) ==
    IF field.k # "str" THEN NaN
    ELSE
      LET c == field.chars
          b == 1 + BlanksFrom(c, 1)
          hasSign == b <= Len(c) /\ c[b] \in {"+", "-"}
          sign == IF hasSign /\ c[b] = "-" THEN 0 - 1 ELSE 1
          i == IF hasSign THEN b + 1 ELSE b
          intLen == DigitsFrom(c, i)
          dot == i + intLen
          hasDot == dot <= Len(c) /\ c[dot] = "."
          fracLen == IF hasDot THEN DigitsFrom(c, dot + 1) ELSE 0
          mant == DigitsValue(c, dot + 1, fracLen, DigitsValue(c, i, intLen, 0))
          e == IF hasDot /\ fracLen > 0 THEN dot + 1 + fracLen
               ELSE IF hasDot /\ intLen > 0 THEN dot + 1 ELSE dot
          hasE == e <= Len(c) /\ c[e] \in {"e", "E"}
          eSigned == hasE /\ e + 1 <= Len(c) /\ c[e + 1] \in {"+", "-"}
          eAt == IF eSigned THEN e + 2 ELSE e + 1
          eLen == IF hasE THEN DigitsFrom(c, eAt) ELSE 0
          eAbs == DigitsValue(c, eAt, eLen, 0)
          ex == IF eLen = 0 THEN 0
                ELSE IF eSigned /\ c[e + 1] = "-" THEN 0 - eAbs ELSE eAbs
      IN  IF HasPrefixAt(c, i, InfinityChars)
          THEN (IF sign > 0 THEN PosInf ELSE NegInf)
          ELSE IF intLen + fracLen = 0 THEN NaN
          ELSE IF mant = 0 THEN Fin(0)
          ELSE MulPow10(sign * mant, ex - fracLen)

\* parseInt(field): the leading integer, NaN when there is none
parseInt(field) ==
    IF field.k # "str" THEN NaN
    ELSE
      LET c == field.chars
          b == 1 + BlanksFrom(c, 1)
          hasSign == b <= Len(c) /\ c[b] \in {"+", "-"}
          sign == IF hasSign /\ c[b] = "-" THEN 0 - 1 ELSE 1
          i == IF hasSign THEN b + 1 ELSE b
          n == DigitsFrom(c, i)
      IN  IF n = 0 THEN NaN ELSE IntNum(sign * DigitsValue(c, i, n, 0))

(* --------------------------- upstream answers -------------------------- *)

\* an on-chain read or an HTTP request that fails (network, revert, decode)
Failed == [k |-> "failed"]

\* an HTTP response with a non-2xx status
NotOk == [k |-> "notok"]

\* offsets, in seconds, of an on-chain timestamp from the local clock
TsOffsets == {0 - 3601, 0 - 60, 0, 60}

ChainSecs(t) == {(t \div 1000) + off : off \in TsOffsets}

\* getLatestPrice() answers: (price, timestamp, decimals)
YeiMultiAnswers(t) ==
    {Failed} \cup
    {[k |-> "tuple", price |-> p, timestamp |-> ts, decimals |-> 2] :
        p \in {0, 2500}, ts \in ChainSecs(t)}

\* CoinGecko answers: the usd member after response.json()
CoinGeckoAnswers ==
    {Failed, NotOk} \cup
    {[k |-> "ok", usd |-> u] :
        u \in {Undefined, Fin(0), MulPow10(0 - 1, 0), MulPow10(650005, 0 - 1),
               PosInf}}

\* getPriceUnsafe() answers: (price, conf, expo, publishTime)
PythAnswers(t) ==
    {Failed} \cup
    {[k |-> "tuple", price |-> p, conf |-> cf, expo |-> e, publishTime |-> ts] :
        p \in {0, 0 - 5, 2700}, cf \in {3, 500}, e \in {0 - 2, 400},
        ts \in {t \div 1000, (t \div 1000) + 60}}

\* Binance ticker answers: the price member, a string
CexAnswers ==
    {Failed, NotOk} \cup
    {[k |-> "ok", price |-> f] :
        f \in {Undefined, Str(<<"a", "b">>), Str(<<"0">>),
               Str(<<"2", "8", ".", "5">>), Str(InfinityChars)}}

\* readDataFeed() answers: (value, timestamp)
API3Answers(t) ==
    {Failed} \cup
    {[k |-> "tuple", value |-> v, timestamp |-> ts] :
        v \in {Big(0, 0), Big(26, 18)},
        ts \in {(t \div 1000) - 3601, t \div 1000}}

\* getLatestRoundData() answers: (price, timestamp)
RedstoneAnswers(t) ==
    {Failed} \cup
    {[k |-> "tuple", price |-> v, timestamp |-> ts] :
        v \in {Big(0, 0), Big(1, 8)},
        ts \in {(t \div 1000) - 3601, t \div 1000}}

\* getPriceUnsafe() answers to the second level of the legacy cascade
YeiPythAnswers(t) ==
    {Failed} \cup
    {[k |-> "tuple", price |-> 2700, conf |-> 3, expo |-> 0 - 2,
      publishTime |-> ts] : ts \in {(t \div 1000) - 3601, t \div 1000}}

\* the answer a reachable upstream gives when nothing is wrong: well formed,
\* and observed at the time of the read
PlainAnswer(u, t) ==
    CASE u = "yei-multi" ->
             [k |-> "tuple", price |-> 2500, timestamp |-> t \div 1000,
              decimals |-> 2]
      [] u = "coingecko" -> [k |-> "ok", usd |-> MulPow10(650005, 0 - 1)]
      [] u = "api3" ->
             [k |-> "tuple", value |-> Big(26, 18), timestamp |-> t \div 1000]
      [] u = "redstone" ->
             [k |-> "tuple", price |-> Big(1, 8), timestamp |-> t \div 1000]
      [] u = "pyth" ->
             [k |-> "tuple", price |-> 2700, conf |-> 3, expo |-> 0 - 2,
              publishTime |-> t \div 1000]
      [] u = "cex" -> [k |-> "ok", price |-> Str(<<"2", "8", ".", "5">>)]

(* ------------------------------ adapters ------------------------------- *)

\* adapter 1: an observation older than StaleMs is logged and returned
getYeiMultiOraclePriceStrict(symbol, ans, t) ==
    TryCatch(
        IF ToUpper(symbol) \notin YeiMultiOracleSymbols THEN Null
        ELSE IF ans.k = "failed" THEN Throw
        ELSE IF ans.price = 0 THEN Null
        ELSE IF t - ans.timestamp * 1000 > StaleMs THEN Null
        ELSE Quote(symbol, DivPow10(ans.price, ans.decimals),
                   ans.timestamp * 1000, "YEI Multi-Oracle",
                   Hundredths(ConfYeiMulti)),
        Null)
getYeiMultiOraclePrice(symbol, ans, t) ==
    TryCatch(
        IF ToUpper(symbol) \notin YeiMultiOracleSymbols THEN Null
        ELSE IF ans.k = "failed" THEN Throw
        ELSE IF ans.price = 0 THEN Null
        ELSE Quote(symbol, DivPow10(ans.price, ans.decimals),
                   ans.timestamp * 1000, "YEI Multi-Oracle",
                   Hundredths(ConfYeiMulti)),
        Null)

\* adapter 2
getCoinGeckoPrice(symbol, ans, t) ==
    TryCatch(
        IF ToUpper(symbol) \notin CoinGeckoSymbols THEN Null
        ELSE IF ans.k = "failed" THEN Throw
        ELSE IF ans.k = "notok" THEN Null
        ELSE IF ~Truthy(ans.usd) \/ isNaN(ans.usd) \/ LeZero(ans.usd) THEN Null
        ELSE Quote(symbol, ans.usd, t, "CoinGecko", Hundredths(ConfDefault)),
        Null)

\* adapter 4, and the second level of the legacy cascade
getPythPrice(symbol, ans, t) ==
    TryCatch(
        IF symbol \notin PythFeedSymbols THEN Null
        ELSE IF ans.k = "failed" THEN Throw
        ELSE IF ans.price = 0 THEN Null
        ELSE LET priceValue == MulPow10(ans.price, ans.expo)
                 confidence == MulPow10(ans.conf, ans.expo)
             IN  IF isNaN(priceValue) \/ LeZero(priceValue) THEN Null
                 ELSE Quote(symbol, priceValue, ans.publishTime * 1000,
                            "pyth", confidence),
        Null)

\* adapter 5
getCexPrice(symbol, ans, t) ==
    TryCatch(
        IF symbol \notin CexSupportedSymbols THEN Null
        ELSE IF ans.k = "failed" THEN Throw
        ELSE IF ans.k = "notok" THEN Null
        ELSE LET price == parseFloat(ans.price)
             IN  IF isNaN(price) \/ LeZero(price) THEN Null
                 ELSE Quote(symbol, price, t, "Binance",
                            Hundredths(ConfDefault)),
        Null)

\* first level of the legacy cascade: a number, or a fault
getAPI3Price(symbol, ans, t) ==
    IF ToUpper(symbol) \notin API3Symbols THEN Throw
    ELSE IF ans.k = "failed" THEN Throw
    ELSE IF (t \div 1000) - ans.timestamp > StaleSec THEN Throw
    ELSE BigDivPow10(ans.value, API3Decimals)

\* third level of the legacy cascade: a number, or a fault
getRedstonePrice(symbol, ans, t) ==
    IF symbol \notin RedstoneSymbols THEN Throw
    ELSE IF ans.k = "failed" THEN Throw
    ELSE BigDivPow10(ans.price, RedstoneDecimals)

\* the levels of getYeiPrice, in the order it awaits them
Levels == <<"api3", "pyth", "redstone">>

LevelSet == {Levels[i] : i \in 1..Len(Levels)}

\* the level getYeiPrice turns to after level l gave no price; "": none
NextLevelSkipsPyth(l) == IF l = "api3" THEN "redstone" ELSE ""
NextLevel(l) ==
    CASE l = "api3" -> "pyth"
      [] l = "pyth" -> "redstone"
      [] OTHER -> ""

\* `if (p && p > 0)` on what a level gave: a number, a Quote, null or a fault
LevelPrice(out) ==
    IF out.k = "quote" THEN (IF GtZero(out.price) THEN out.price ELSE Null)
    ELSE IF out.k \in {"fin", "inf", "ninf", "nan"} /\ Truthy(out) /\ GtZero(out)
         THEN out
    ELSE Null

\* does level l of getYeiPrice send a request upstream for this symbol
LevelIssuesRequest(l, symbol) ==
    CASE l = "api3" -> ToUpper(symbol) \in API3Symbols
      [] l = "pyth" -> symbol \in PythFeedSymbols
      [] l = "redstone" -> symbol \in RedstoneSymbols

\* the answers level l can read
LevelAnswers(l, t) ==
    CASE l = "api3" -> API3Answers(t)
      [] l = "pyth" -> YeiPythAnswers(t)
      [] l = "redstone" -> RedstoneAnswers(t)

\* what level l of getYeiPrice awaits: the adapter of the level
LevelOut(l, symbol, ans, t) ==
    CASE l = "api3" -> getAPI3Price(symbol, ans, t)
      [] l = "pyth" -> getPythPrice(symbol, ans, t)
      [] l = "redstone" -> getRedstonePrice(symbol, ans, t)

\* adapter 3: what getPrice makes of the result of getYeiPrice, a number or
\* a fault
YeiLegacyQuote(symbol, yeiResult, t) ==
    LET yeiPrice == TryCatch(yeiResult, Null)
    IN  IF Truthy(yeiPrice) /\ GtZero(yeiPrice)
        THEN Quote(symbol, yeiPrice, t, "yei-legacy-oracle",
                   Hundredths(ConfDefault))
        ELSE Null

(* ------------------------- exchange answers ---------------------------- *)

Exchanges == <<"Binance", "Bybit", "OKX">>

ExchangeSet == {Exchanges[i] : i \in 1..Len(Exchanges)}

\* the funding rate each exchange quotes, as the string of its payload
BinanceRateString == Str(<<"0", ".", "0", "1">>)

BybitRateString == Str(<<"-", "0", ".", "0", "2">>)

OkxRateString == Str(<<"0", ".", "0", "3">>)

\* a time in milliseconds as the exchanges write it
TimeString == Str(<<"7", "2", "2", "8", "8", "0", "0">>)

\* /premiumIndex bodies: {lastFundingRate, nextFundingTime}
BinanceAnswers ==
    {Failed, NotOk,
     [k |-> "ok", lastFundingRate |-> BinanceRateString,
      nextFundingTime |-> TimeString],
     [k |-> "ok", lastFundingRate |-> Undefined, nextFundingTime |-> Undefined]}

\* /market/tickers bodies: {result: {list: [{fundingRate, nextFundingTime}]}}
BybitAnswers ==
    {Failed, NotOk,
     [k |-> "ok", list |-> <<[fundingRate |-> BybitRateString,
                              nextFundingTime |-> TimeString]>>],
     [k |-> "ok", list |-> <<>>],
     [k |-> "ok", list |-> <<[fundingRate |-> Undefined,
                              nextFundingTime |-> Undefined]>>]}

\* /public/funding-rate bodies: {data: [{fundingRate, fundingTime, nextFundingTime}]}
OkxAnswers ==
    {Failed, NotOk,
     [k |-> "ok", data |-> <<[fundingRate |-> OkxRateString,
                              fundingTime |-> TimeString,
                              nextFundingTime |-> TimeString]>>],
     [k |-> "ok", data |-> <<>>],
     [k |-> "ok", data |-> <<[fundingRate |-> Undefined,
                              fundingTime |-> Undefined,
                              nextFundingTime |-> Undefined]>>]}

ExchangeAnswers(x) ==
    CASE x = "Binance" -> BinanceAnswers
      [] x = "Bybit" -> BybitAnswers
      [] x = "OKX" -> OkxAnswers

\* the answer of exchange x when nothing is wrong: a body with its rate
PlainExchangeAnswer(x) ==
    CASE x = "Binance" ->
             [k |-> "ok", lastFundingRate |-> BinanceRateString,
              nextFundingTime |-> TimeString]
      [] x = "Bybit" ->
             [k |-> "ok", list |-> <<[fundingRate |-> BybitRateString,
                                      nextFundingTime |-> TimeString]>>]
      [] x = "OKX" ->
             [k |-> "ok", data |-> <<[fundingRate |-> OkxRateString,
                                      fundingTime |-> TimeString,
                                      nextFundingTime |-> TimeString]>>]

(* -------------------------- funding adapters --------------------------- *)

FundingRate(symbol, rate, timestamp, exchange, nextFundingTime) ==
    [k |-> "rate", symbol |-> symbol, rate |-> rate, timestamp |-> timestamp,
     exchange |-> exchange, nextFundingTime |-> nextFundingTime]

getBinanceFundingRateUnscaled(symbol, ans, t) ==
    TryCatch(
        IF ans.k = "failed" THEN Throw
        ELSE IF ans.k = "notok" THEN Null
        ELSE FundingRate(symbol, parseFloat(ans.lastFundingRate),
                         IntNum(t), "Binance", parseInt(ans.nextFundingTime)),
        Null)
getBinanceFundingRate(symbol, ans, t) ==
    TryCatch(
        IF ans.k = "failed" THEN Throw
        ELSE IF ans.k = "notok" THEN Null
        ELSE FundingRate(symbol,
                         MulInt(parseFloat(ans.lastFundingRate), Annualize),
                         IntNum(t), "Binance", parseInt(ans.nextFundingTime)),
        Null)

getBybitFundingRate(symbol, ans, t) ==
    TryCatch(
        IF ans.k = "failed" THEN Throw
        ELSE IF ans.k = "notok" THEN Null
        ELSE IF ans.list = <<>> THEN Throw
        ELSE LET ticker == ans.list[1]
             IN  FundingRate(symbol,
                             MulInt(parseFloat(ticker.fundingRate), Annualize),
                             IntNum(t), "Bybit",
                             parseInt(ticker.nextFundingTime)),
        Null)

getOkxFundingRate(symbol, ans, t) ==
    TryCatch(
        IF ans.k = "failed" THEN Throw
        ELSE IF ans.k = "notok" THEN Null
        ELSE IF ans.data = <<>> THEN Throw
        ELSE LET fundingData == ans.data[1]
             IN  FundingRate(symbol,
                             MulInt(parseFloat(fundingData.fundingRate), Annualize),
                             parseInt(fundingData.fundingTime), "OKX",
                             parseInt(fundingData.nextFundingTime)),
        Null)

getExchangeFundingRate(x, symbol, ans, t) ==
    CASE x = "Binance" -> getBinanceFundingRate(symbol, ans, t)
      [] x = "Bybit" -> getBybitFundingRate(symbol, ans, t)
      [] x = "OKX" -> getOkxFundingRate(symbol, ans, t)

(* -------------------------------- state -------------------------------- *)

CallIds == 1..MaxCalls

FCallIds == 1..MaxFCalls

\* the watch-list of the timer callback
TickSymbols == <<"BTC", "ETH", "SEI">>

TickSymbolSet == {TickSymbols[i] : i \in 1..Len(TickSymbols)}

\* the runs of the timer callback, in the order they begin; setInterval does
\* not wait for a run to end, so several can be in progress
RunIds == 1..MaxRuns

\* the getPrice calls of one run of the timer callback, one for each
\* watch-list symbol
TickCallsOf(r) ==
    {MaxCalls + (r - 1) * Len(TickSymbols) + i : i \in 1..Len(TickSymbols)}

TickCallIds == UNION {TickCallsOf(r) : r \in RunIds}

\* the getFundingRates calls of one run of the timer callback
TickFCallsOf(r) ==
    {MaxFCalls + (r - 1) * Len(TickSymbols) + i : i \in 1..Len(TickSymbols)}

TickFCallIds == UNION {TickFCallsOf(r) : r \in RunIds}

\* the run a call of the timer callback belongs to
RunOfCall(c) == ((c - MaxCalls - 1) \div Len(TickSymbols)) + 1

RunOfFCall(f) == ((f - MaxFCalls - 1) \div Len(TickSymbols)) + 1

\* the keys the price cache and the funding cache can hold
PriceKeys == Symbols \cup TickSymbolSet \cup CaseSymbols

FundingKeys == FundingSymbols \cup TickSymbolSet

VARIABLES
    now,              \* Date.now(), milliseconds
    priceCache,       \* this.priceCache: symbol -> Quote, Null when absent
    priceInsertedAt,  \* history: when priceCache.set last ran for the symbol
    calls,            \* the getPrice calls in progress
    fundingRateCache, \* this.fundingRateCache: symbol -> list, Null when absent
    fundingInsertedAt, \* history: when fundingRateCache.set last ran for the symbol
    fcalls,           \* the getFundingRates calls in progress
    started,          \* history: calls started so far
    ticks,            \* history: advances of the clock so far
    intervalHandle,   \* this.updateInterval: a timer id, 0 when null
    timers,           \* the interval timers the runtime holds: id and due time
    timersCreated,    \* history: setInterval calls so far
    lastOp,           \* history: the last of startPriceUpdates / stopPriceUpdates
    ops,              \* history: startPriceUpdates and stopPriceUpdates calls so far
    stoppedIn,        \* history: the phase of each run of the callback at the last stop
    inFlightAtStop,   \* history: the callback's getPrice calls awaiting at the last stop
    runs,             \* history: for each run of the callback begun so far, the
                      \* kinds of the answers to its requests
    oracleInstance,   \* the module's oracleInstance: an instance id, 0 when null
    constructed,      \* history: SeiOracleProvider instances constructed so far
    gets,             \* history: oracleProvider.get calls so far
    conv,             \* one on-chain read and what its adapter made of it
    tick,             \* the runs of the timer callback: phase, timer, time of the fire
    yei               \* getPrice's priority-3 block in progress, level by level

priceVars == <<priceCache, priceInsertedAt, calls>>

fundingVars == <<fundingRateCache, fundingInsertedAt, fcalls>>

schedVars ==
    <<intervalHandle, timers, timersCreated, lastOp, ops, stoppedIn,
      inFlightAtStop, runs, tick>>

provVars == <<oracleInstance, constructed, gets>>

vars ==
    <<now, priceVars, fundingVars, started, ticks, schedVars, provVars, conv,
      yei>>

\* no on-chain read singled out
IdleConv == [pc |-> "idle", fn |-> "", sym |-> "", ans |-> Null, out |-> Null]

\* a getPrice call that has not started
IdleCall ==
    [pc |-> "idle", sym |-> "", startedAt |-> 0, insAtStart |-> 0 - 1,
     cacheSeen |-> Null, invoked |-> <<>>, outs |-> <<>>, upstream |-> <<>>,
     lvl |-> "", reads |-> <<>>, allOk |-> TRUE, result |-> Null]

\* a list of funding rates
List(l) == [k |-> "list", list |-> l]

\* a getFundingRates call that has not started
IdleFCall ==
    [pc |-> "idle", sym |-> "", startedAt |-> 0, insAtStart |-> 0 - 1,
     cacheSeen |-> Null,
     req |-> [x \in ExchangeSet |-> "none"],
     ans |-> [x \in ExchangeSet |-> Null],
     rates |-> [x \in ExchangeSet |-> Null],
     result |-> Null]

AdapterPc(k) ==
    CASE k = 1 -> "a1" [] k = 2 -> "a2" [] k = 3 -> "a3" [] k = 4 -> "a4"
      [] k = 5 -> "a5"

(* ------------------- answers to the timer callback --------------------- *)

\* The requests of the timer callback are answered like those of any caller.
\* The history `runs` keeps, for each run of the callback, whether one of
\* the answers to its requests was the plain one (1 or 0), whether one was a
\* failure, and whether one was something else.

NoAnswers == [plain |-> 0, failed |-> 0, other |-> 0]

\* `runs` once a request was answered: sent tells whether there was a
\* request, byTick whether a run of the callback sent it
Counted(byTick, r, sent, ans, plain) ==
    IF ~(byTick /\ sent) THEN runs
    ELSE IF ans = plain THEN [runs EXCEPT ![r].plain = 1]
    ELSE IF ans = Failed THEN [runs EXCEPT ![r].failed = 1]
    ELSE [runs EXCEPT ![r].other = 1]

\* the variables of the scheduler but `runs`
timerVars ==
    <<intervalHandle, timers, timersCreated, lastOp, ops, stoppedIn,
      inFlightAtStop, tick>>

(* ------------------------------ getPrice ------------------------------- *)

\* the cache test of getPrice: an entry, and younger than updateInterval
CacheFresh(cached, t) ==
    cached.k = "quote" /\ t - cached.timestamp < updateInterval * 1000

\* the test before priceCache.set
PriceAcceptable(price) ==
    price.k = "quote" /\ ~isNaN(price.price) /\ GtZero(price.price)

\* the price cache after this.priceCache.set(symbol, price)
StorePriceIfAbsent(cache, symbol, price) ==
    IF cache[symbol] = Null THEN [cache EXCEPT ![symbol] = price] ELSE cache
StorePrice(cache, symbol, price) == [cache EXCEPT ![symbol] = price]

\* the adapter getPrice turns to when adapter k left price null; 0: none
NextAdapterSkipsTwo(k, symbol) ==
    IF k = 1 THEN 3 ELSE IF k < 5 THEN k + 1 ELSE 0
NextAdapter(k, symbol) ==
    CASE k = 1 -> 2
      [] k = 2 -> IF ToUpper(symbol) \in yeiSupportedSymbols THEN 3 ELSE 4
      [] k = 3 -> 4
      [] k = 4 -> 5
      [] OTHER -> 0

\* does adapter k send a request upstream, for this symbol, when it is called
IssuesRequest(k, symbol) ==
    CASE k = 1 -> ToUpper(symbol) \in YeiMultiOracleSymbols
      [] k = 2 -> ToUpper(symbol) \in CoinGeckoSymbols
      [] k = 3 -> LevelIssuesRequest(Levels[1], symbol)
      [] k = 4 -> symbol \in PythFeedSymbols
      [] k = 5 -> symbol \in CexSupportedSymbols

\* the call record once getYeiPrice awaits level l
EnterLevel(r, l) ==
    LET sent == LevelIssuesRequest(l, r.sym)
    IN  [r EXCEPT !.lvl = l,
                  !.reads = IF sent THEN Append(@, l) ELSE @,
                  !.upstream = IF sent /\ (@ = <<>> \/ @[Len(@)] # 3)
                               THEN Append(@, 3) ELSE @]

\* the call record once adapter k has been called
Invoke(r, k) ==
    IF k = 3
    THEN EnterLevel([r EXCEPT !.pc = AdapterPc(k), !.invoked = Append(@, k)],
                    Levels[1])
    ELSE [r EXCEPT !.pc = AdapterPc(k),
                   !.invoked = Append(@, k),
                   !.upstream = IF IssuesRequest(k, r.sym) THEN Append(@, k)
                                ELSE @]

\* the call record of getPrice(symbol) at its first await, or at its return
\* when the cache answers
EnterGetPrice(symbol) ==
    LET cached == priceCache[symbol]
        r == [IdleCall EXCEPT !.sym = symbol, !.startedAt = now,
                              !.insAtStart = priceInsertedAt[symbol],
                              !.cacheSeen = cached]
    IN  IF CacheFresh(cached, now)
        THEN [r EXCEPT !.pc = "done", !.result = cached]
        ELSE Invoke(r, 1)

\* a caller's getPrice(symbol) up to its first await
GetPriceStart(c, symbol) ==
    /\ calls[c].pc = "idle"
    /\ \A d \in CallIds : d < c => calls[d].pc # "idle"
    /\ started < MaxStarts
    /\ started' = started + 1
    /\ calls' = [calls EXCEPT ![c] = EnterGetPrice(symbol)]
    /\ UNCHANGED <<now, priceCache, priceInsertedAt, fundingVars, ticks,
                   schedVars, provVars, conv, yei>>

\* getPrice from the return of adapter k, with value out, to its next await
\* or to its return
ResumeDropsOnNull(c, k, out, avail) ==
    LET r == [calls[c] EXCEPT !.outs = Append(@, out), !.lvl = "",
                              !.allOk = @ /\ avail]
        nxt == NextAdapter(k, r.sym)
    IN  IF out.k = "throw"
        THEN /\ calls' = [calls EXCEPT ![c] =
                    [r EXCEPT !.pc = "done", !.result = TryCatch(Throw, Null)]]
             /\ UNCHANGED <<priceCache, priceInsertedAt>>
        ELSE IF out.k = "null" /\ nxt # 0
        THEN /\ calls' = [calls EXCEPT ![c] = Invoke(r, nxt)]
             /\ UNCHANGED <<priceCache, priceInsertedAt>>
        ELSE IF PriceAcceptable(out)
        THEN /\ calls' = [calls EXCEPT ![c] =
                    [r EXCEPT !.pc = "done", !.result = out]]
             /\ priceCache' = StorePrice(priceCache, r.sym, out)
             /\ priceInsertedAt' = [priceInsertedAt EXCEPT ![r.sym] = now]
        ELSE /\ calls' = [calls EXCEPT ![c] =
                    [r EXCEPT !.pc = "done", !.result = Null]]
             /\ priceCache' = [priceCache EXCEPT ![r.sym] = Null]
             /\ UNCHANGED priceInsertedAt
Resume(c, k, out, avail) ==
    LET r == [calls[c] EXCEPT !.outs = Append(@, out), !.lvl = "",
                              !.allOk = @ /\ avail]
        nxt == NextAdapter(k, r.sym)
    IN  IF out.k = "throw"
        THEN /\ calls' = [calls EXCEPT ![c] =
                    [r EXCEPT !.pc = "done", !.result = TryCatch(Throw, Null)]]
             /\ UNCHANGED <<priceCache, priceInsertedAt>>
        ELSE IF out.k = "null" /\ nxt # 0
        THEN /\ calls' = [calls EXCEPT ![c] = Invoke(r, nxt)]
             /\ UNCHANGED <<priceCache, priceInsertedAt>>
        ELSE IF PriceAcceptable(out)
        THEN /\ calls' = [calls EXCEPT ![c] =
                    [r EXCEPT !.pc = "done", !.result = out]]
             /\ priceCache' = StorePrice(priceCache, r.sym, out)
             /\ priceInsertedAt' = [priceInsertedAt EXCEPT ![r.sym] = now]
        ELSE /\ calls' = [calls EXCEPT ![c] =
                    [r EXCEPT !.pc = "done", !.result = Null]]
             /\ UNCHANGED <<priceCache, priceInsertedAt>>

\* did the upstream answer the request, if one was sent
Available(sent, ans) == sent => ans.k \notin {"failed", "notok"}

\* the request of adapter 1 completes and the adapter returns
YeiMultiOracleReturns(c, ans) ==
    /\ calls[c].pc = "a1"
    /\ ans \in YeiMultiAnswers(now)
    /\ Resume(c, 1, getYeiMultiOraclePrice(calls[c].sym, ans, now),
              Available(IssuesRequest(1, calls[c].sym), ans))
    /\ runs' = Counted(c \in TickCallIds, RunOfCall(c),
                       IssuesRequest(1, calls[c].sym), ans,
                       PlainAnswer("yei-multi", now))
    /\ UNCHANGED <<now, fundingVars, started, ticks, timerVars, provVars, conv,
                   yei>>

\* the request of adapter 2 completes and the adapter returns
CoinGeckoReturns(c, ans) ==
    /\ calls[c].pc = "a2"
    /\ ans \in CoinGeckoAnswers
    /\ Resume(c, 2, getCoinGeckoPrice(calls[c].sym, ans, now),
              Available(IssuesRequest(2, calls[c].sym), ans))
    /\ runs' = Counted(c \in TickCallIds, RunOfCall(c),
                       IssuesRequest(2, calls[c].sym), ans,
                       PlainAnswer("coingecko", now))
    /\ UNCHANGED <<now, fundingVars, started, ticks, timerVars, provVars, conv,
                   yei>>

\* inside adapter 3, the await of level l of getYeiPrice ends: getYeiPrice
\* goes on to its next await, or returns (or throws) and getPrice goes on
YeiLevelReturns(c, l, ans) ==
    /\ calls[c].pc = "a3"
    /\ calls[c].lvl = l
    /\ ans \in LevelAnswers(l, now)
    /\ LET out == LevelOut(l, calls[c].sym, ans, now)
           p == LevelPrice(TryCatch(out, Null))
           avail == Available(LevelIssuesRequest(l, calls[c].sym), ans)
       IN  IF p = Null /\ NextLevel(l) # ""
           THEN /\ calls' = [calls EXCEPT ![c] =
                       EnterLevel([calls[c] EXCEPT !.allOk = @ /\ avail],
                                  NextLevel(l))]
                /\ UNCHANGED <<priceCache, priceInsertedAt>>
           ELSE Resume(c, 3,
                       YeiLegacyQuote(calls[c].sym,
                                      IF p # Null THEN p ELSE Throw, now),
                       avail)
    /\ runs' = Counted(c \in TickCallIds, RunOfCall(c),
                       LevelIssuesRequest(l, calls[c].sym), ans,
                       PlainAnswer(l, now))
    /\ UNCHANGED <<now, fundingVars, started, ticks, timerVars, provVars, conv,
                   yei>>

\* the request of adapter 4 completes and the adapter returns
PythReturns(c, ans) ==
    /\ calls[c].pc = "a4"
    /\ ans \in PythAnswers(now)
    /\ Resume(c, 4, getPythPrice(calls[c].sym, ans, now),
              Available(IssuesRequest(4, calls[c].sym), ans))
    /\ runs' = Counted(c \in TickCallIds, RunOfCall(c),
                       IssuesRequest(4, calls[c].sym), ans,
                       PlainAnswer("pyth", now))
    /\ UNCHANGED <<now, fundingVars, started, ticks, timerVars, provVars, conv,
                   yei>>

\* the request of adapter 5 completes and the adapter returns
CexReturns(c, ans) ==
    /\ calls[c].pc = "a5"
    /\ ans \in CexAnswers
    /\ Resume(c, 5, getCexPrice(calls[c].sym, ans, now),
              Available(IssuesRequest(5, calls[c].sym), ans))
    /\ runs' = Counted(c \in TickCallIds, RunOfCall(c),
                       IssuesRequest(5, calls[c].sym), ans,
                       PlainAnswer("cex", now))
    /\ UNCHANGED <<now, fundingVars, started, ticks, timerVars, provVars, conv,
                   yei>>

\* the caller takes the result of a finished call
GetPriceReturn(c) ==
    /\ calls[c].pc = "done"
    /\ calls' = [calls EXCEPT ![c] = IdleCall]
    /\ UNCHANGED <<now, priceCache, priceInsertedAt, fundingVars, started, ticks,
                   schedVars, provVars, conv, yei>>

(* --------------------------- getFundingRates --------------------------- *)

\* the cache test of getFundingRates
FundingCacheFresh(cached, t) ==
    /\ cached.k = "list"
    /\ Len(cached.list) > 0
    /\ cached.list[1].timestamp.k = "int"
    /\ t - cached.list[1].timestamp.v < updateInterval * 1000

\* the requests in flight once the array handed to Promise.all is built
FanOutOneByOne == [x \in ExchangeSet |-> IF x = Exchanges[1] THEN "pending" ELSE "none"]
FanOut == [x \in ExchangeSet |-> "pending"]

\* rates.filter(r => r !== null), in the order of the array
RECURSIVE FilterNonNullBackwards(_, _)
RECURSIVE FilterNonNull(_, _)
FilterNonNullBackwards(rates, i) ==
    IF i > Len(Exchanges) THEN <<>>
    ELSE FilterNonNullBackwards(rates, i + 1) \o
         (IF rates[Exchanges[i]].k = "null" THEN <<>>
          ELSE <<rates[Exchanges[i]]>>)

FilterNonNull(rates, i) ==
    IF i > Len(Exchanges) THEN <<>>
    ELSE (IF rates[Exchanges[i]].k = "null" THEN <<>>
          ELSE <<rates[Exchanges[i]]>>) \o FilterNonNull(rates, i + 1)

\* the funding cache after `if (validRates.length > 0) set(symbol, validRates)`
StoreRatesAlways(cache, symbol, validRates) ==
    [cache EXCEPT ![symbol] = List(validRates)]
StoreRates(cache, symbol, validRates) ==
    IF Len(validRates) > 0
    THEN [cache EXCEPT ![symbol] = List(validRates)]
    ELSE cache

\* the call record of getFundingRates(symbol) at its await of Promise.all,
\* or at its return when the cache answers
EnterGetFundingRates(symbol) ==
    LET cached == fundingRateCache[symbol]
        r == [IdleFCall EXCEPT !.sym = symbol, !.startedAt = now,
                               !.insAtStart = fundingInsertedAt[symbol],
                               !.cacheSeen = cached]
    IN  IF FundingCacheFresh(cached, now)
        THEN [r EXCEPT !.pc = "done", !.result = cached]
        ELSE [r EXCEPT !.pc = "fanout", !.req = FanOut]

\* a caller's getFundingRates(symbol) up to its await of Promise.all
GetFundingRatesStart(f, symbol) ==
    /\ fcalls[f].pc = "idle"
    /\ \A d \in FCallIds : d < f => fcalls[d].pc # "idle"
    /\ started < MaxStarts
    /\ started' = started + 1
    /\ fcalls' = [fcalls EXCEPT ![f] = EnterGetFundingRates(symbol)]
    /\ UNCHANGED <<now, priceVars, fundingRateCache, fundingInsertedAt, ticks,
                   schedVars, provVars, conv, yei>>

\* the request to exchange x completes and its adapter returns
ExchangeReturns(f, x, ans) ==
    /\ fcalls[f].pc = "fanout"
    /\ fcalls[f].req[x] = "pending"
    /\ ans \in ExchangeAnswers(x)
    /\ fcalls' = [fcalls EXCEPT
           ![f].req[x] = "done",
           ![f].ans[x] = ans,
           ![f].rates[x] = getExchangeFundingRate(x, fcalls[f].sym, ans, now)]
    /\ runs' = Counted(f \in TickFCallIds, RunOfFCall(f), TRUE, ans,
                       PlainExchangeAnswer(x))
    /\ UNCHANGED <<now, priceVars, fundingRateCache, fundingInsertedAt,
                   started, ticks, timerVars, provVars, conv, yei>>

\* Promise.all settles: getFundingRates runs from its await to its return
GetFundingRatesJoin(f) ==
    LET r == fcalls[f]
        rejected == \E x \in ExchangeSet : r.rates[x].k = "throw"
        validRates == FilterNonNull(r.rates, 1)
    IN  /\ r.pc = "fanout"
        /\ rejected \/ \A x \in ExchangeSet : r.req[x] = "done"
        /\ IF rejected
           THEN /\ fcalls' = [fcalls EXCEPT ![f].pc = "done",
                                  ![f].result = TryCatch(Throw, List(<<>>))]
                /\ UNCHANGED <<fundingRateCache, fundingInsertedAt>>
           ELSE /\ fcalls' = [fcalls EXCEPT ![f].pc = "done",
                                  ![f].result = List(validRates)]
                /\ fundingRateCache' =
                      StoreRates(fundingRateCache, r.sym, validRates)
                /\ fundingInsertedAt' =
                      IF Len(validRates) > 0
                      THEN [fundingInsertedAt EXCEPT ![r.sym] = now]
                      ELSE fundingInsertedAt
        /\ UNCHANGED <<now, priceVars, started, ticks, schedVars, provVars, conv, yei>>

\* the caller takes the result of a finished call
GetFundingRatesReturn(f) ==
    /\ fcalls[f].pc = "done"
    /\ fcalls' = [fcalls EXCEPT ![f] = IdleFCall]
    /\ UNCHANGED <<now, priceVars, fundingRateCache, fundingInsertedAt,
                   started, ticks, schedVars, provVars, conv, yei>>

(* ----------------------------- scheduler ------------------------------- *)

\* a run of the timer callback that has not begun, or has ended
IdleTick == [phase |-> "idle", timer |-> 0, firedAt |-> 0]

\* no run of the timer callback in progress
NoTick == [r \in RunIds |-> IdleTick]

TickSymbolOfCall(c) == TickSymbols[((c - MaxCalls - 1) % Len(TickSymbols)) + 1]

TickSymbolOfFCall(f) ==
    TickSymbols[((f - MaxFCalls - 1) % Len(TickSymbols)) + 1]

\* `if (this.updateInterval)`: a timer handle is truthy, null is not
TimerActiveNever(h) == FALSE
TimerActive(h) == h # 0

\* setInterval(callback, updateInterval * 1000): the timers with a new one
SetInterval(ts, id, t) == ts \cup {[id |-> id, due |-> t + updateInterval * 1000]}

\* clearInterval(handle): the timers without the one of the handle
ClearIntervalKeeps(ts, h) == ts
ClearInterval(ts, h) == {t \in ts : t.id # h}

\* the body of startPriceUpdates()
StartTimer ==
    /\ ops' = ops + 1
    /\ lastOp' = "start"
    /\ stoppedIn' = [r \in RunIds |-> "none"]
    /\ inFlightAtStop' = {}
    /\ IF TimerActive(intervalHandle)
       THEN UNCHANGED <<intervalHandle, timers, timersCreated>>
       ELSE /\ timersCreated' = timersCreated + 1
            /\ timers' = SetInterval(timers, timersCreated + 1, now)
            /\ intervalHandle' = timersCreated + 1

\* startPriceUpdates()
StartPriceUpdates ==
    /\ ops < MaxOps
    /\ StartTimer
    /\ UNCHANGED <<now, priceVars, fundingVars, started, ticks, runs, tick, provVars, conv, yei>>

\* stopPriceUpdates()
StopPriceUpdatesCancels ==
    /\ ops < MaxOps
    /\ ops' = ops + 1
    /\ lastOp' = "stop"
    /\ stoppedIn' = [r \in RunIds |-> tick[r].phase]
    /\ inFlightAtStop' =
          {c \in TickCallIds : calls[c].pc \notin {"idle", "done"}}
    /\ IF TimerActive(intervalHandle)
       THEN /\ timers' = ClearInterval(timers, intervalHandle)
            /\ intervalHandle' = 0
       ELSE UNCHANGED <<intervalHandle, timers>>
    /\ tick' = NoTick
    /\ calls' = [c \in DOMAIN calls |->
                    IF c \in TickCallIds THEN IdleCall ELSE calls[c]]
    /\ fcalls' = [f \in DOMAIN fcalls |->
                    IF f \in TickFCallIds THEN IdleFCall ELSE fcalls[f]]
    /\ UNCHANGED <<now, priceCache, priceInsertedAt, fundingRateCache,
                   fundingInsertedAt, started, ticks, timersCreated, runs,
                   provVars, conv, yei>>
StopPriceUpdates ==
    /\ ops < MaxOps
    /\ ops' = ops + 1
    /\ lastOp' = "stop"
    /\ stoppedIn' = [r \in RunIds |-> tick[r].phase]
    /\ inFlightAtStop' =
          {c \in TickCallIds : calls[c].pc \notin {"idle", "done"}}
    /\ IF TimerActive(intervalHandle)
       THEN /\ timers' = ClearInterval(timers, intervalHandle)
            /\ intervalHandle' = 0
       ELSE UNCHANGED <<intervalHandle, timers>>
    /\ UNCHANGED <<now, priceVars, fundingVars, started, ticks, timersCreated,
                   runs, tick, provVars, conv, yei>>

\* a timer comes due and its callback runs to its first await: the three
\* getPrice calls of symbols.map are started one after another.  The timer
\* does not look at the runs begun before: one that still awaits goes on.
TimerFires ==
    /\ Len(runs) < MaxRuns
    /\ \E t \in timers :
          /\ now >= t.due
          /\ timers' = (timers \ {t})
                           \cup {[t EXCEPT !.due = now + updateInterval * 1000]}
          /\ tick' = [tick EXCEPT ![Len(runs) + 1] =
                         [phase |-> "prices", timer |-> t.id, firedAt |-> now]]
          /\ runs' = Append(runs, NoAnswers)
    /\ calls' = [c \in DOMAIN calls |->
                    IF c \in TickCallsOf(Len(runs) + 1)
                    THEN EnterGetPrice(TickSymbolOfCall(c))
                    ELSE calls[c]]
    /\ UNCHANGED <<now, priceCache, priceInsertedAt, fundingVars, started, ticks,
                   intervalHandle, timersCreated, lastOp, ops, stoppedIn,
                   inFlightAtStop, provVars, conv, yei>>

\* the first Promise.all of a run settles: the results are dropped and the
\* three getFundingRates calls are started one after another
TickPricesJoinEarly(r) ==
    /\ tick[r].phase = "prices"
    /\ \E c \in TickCallsOf(r) : calls[c].pc = "done"
    /\ tick' = [tick EXCEPT ![r].phase = "funding"]
    /\ calls' = [c \in DOMAIN calls |->
                    IF c \in TickCallsOf(r) THEN IdleCall ELSE calls[c]]
    /\ fcalls' = [f \in DOMAIN fcalls |->
                    IF f \in TickFCallsOf(r)
                    THEN EnterGetFundingRates(TickSymbolOfFCall(f))
                    ELSE fcalls[f]]
    /\ UNCHANGED <<now, priceCache, priceInsertedAt, fundingRateCache,
                   fundingInsertedAt, started, ticks, intervalHandle, timers,
                   timersCreated, lastOp, ops, stoppedIn, inFlightAtStop, runs,
                   provVars, conv, yei>>
TickPricesJoin(r) ==
    /\ tick[r].phase = "prices"
    /\ \A c \in TickCallsOf(r) : calls[c].pc = "done"
    /\ tick' = [tick EXCEPT ![r].phase = "funding"]
    /\ calls' = [c \in DOMAIN calls |->
                    IF c \in TickCallsOf(r) THEN IdleCall ELSE calls[c]]
    /\ fcalls' = [f \in DOMAIN fcalls |->
                    IF f \in TickFCallsOf(r)
                    THEN EnterGetFundingRates(TickSymbolOfFCall(f))
                    ELSE fcalls[f]]
    /\ UNCHANGED <<now, priceCache, priceInsertedAt, fundingRateCache,
                   fundingInsertedAt, started, ticks, intervalHandle, timers,
                   timersCreated, lastOp, ops, stoppedIn, inFlightAtStop, runs,
                   provVars, conv, yei>>

\* the second Promise.all of a run settles and the callback returns
TickFundingJoin(r) ==
    /\ tick[r].phase = "funding"
    /\ \A f \in TickFCallsOf(r) : fcalls[f].pc = "done"
    /\ tick' = [tick EXCEPT ![r] = IdleTick]
    /\ fcalls' = [f \in DOMAIN fcalls |->
                    IF f \in TickFCallsOf(r) THEN IdleFCall ELSE fcalls[f]]
    /\ UNCHANGED <<now, priceVars, fundingRateCache, fundingInsertedAt, started,
                   ticks, intervalHandle, timers, timersCreated, lastOp, ops,
                   stoppedIn, inFlightAtStop, runs, provVars, conv, yei>>

(* ------------------------- oracleProvider.get -------------------------- *)

\* a message as get reads it: has it a text, does the text hold 'price' or
\* 'quote', does it hold 'funding' or 'rate', and the symbols extractSymbols
\* finds in it
Message(hasText, price, funding, symbols) ==
    [hasText |-> hasText, price |-> price, funding |-> funding,
     symbols |-> symbols]

NoText == Message(FALSE, FALSE, FALSE, <<>>)

Messages ==
    {NoText,
     Message(TRUE, FALSE, FALSE, <<>>),
     Message(TRUE, TRUE, FALSE, <<>>),
     Message(TRUE, TRUE, TRUE, <<"SEI">>),
     Message(TRUE, FALSE, TRUE, <<"BTC">>)}

\* `if (!oracleInstance)`
NoInstanceAlways(i) == TRUE
NoInstance(i) == i = 0

\* the caller's call slot get's first getPrice / getFundingRates takes
FreeCall(c) ==
    c \in CallIds /\ calls[c].pc = "idle"
        /\ \A d \in CallIds : d < c => calls[d].pc # "idle"

FreeFCall(f) ==
    f \in FCallIds /\ fcalls[f].pc = "idle"
        /\ \A d \in FCallIds : d < f => fcalls[d].pc # "idle"

\* oracleProvider.get(runtime, message) up to its first await, or to its
\* return: the instance is made and its timer started when there is none, then
\* the instance's get runs handlePriceQuery or handleFundingRateQuery, whose
\* loop calls getPrice / getFundingRates for the symbol of the message
ProviderGet(m) ==
    /\ gets < MaxGets
    /\ gets' = gets + 1
    /\ IF NoInstance(oracleInstance)
       THEN /\ constructed' = constructed + 1
            /\ oracleInstance' = constructed + 1
            /\ StartTimer
       ELSE UNCHANGED <<oracleInstance, constructed, ops, lastOp, stoppedIn,
                        inFlightAtStop, intervalHandle, timers, timersCreated>>
    /\ IF m.hasText /\ m.price /\ m.symbols # <<>>
       THEN /\ started < MaxStarts
            /\ started' = started + 1
            /\ \E c \in CallIds :
                  /\ FreeCall(c)
                  /\ calls' = [calls EXCEPT ![c] = EnterGetPrice(m.symbols[1])]
            /\ UNCHANGED fcalls
       ELSE IF m.hasText /\ m.funding /\ m.symbols # <<>>
       THEN /\ started < MaxStarts
            /\ started' = started + 1
            /\ \E f \in FCallIds :
                  /\ FreeFCall(f)
                  /\ fcalls' = [fcalls EXCEPT
                                   ![f] = EnterGetFundingRates(m.symbols[1])]
            /\ UNCHANGED calls
       ELSE UNCHANGED <<calls, fcalls, started>>
    /\ UNCHANGED <<now, priceCache, priceInsertedAt, fundingRateCache,
                   fundingInsertedAt, ticks, runs, tick, conv, yei>>

(* ------------------ the legacy cascade, level by level ----------------- *)

\* The priority-3 block of getPrice run one await at a time: the allow-list
\* test, the three levels of getYeiPrice, and the Quote built from its result.

\* the symbols the block is run for
LegacySymbols == {"BTC", "SEI", "USDC", "USDT", "SOL"}

\* the block not running
IdleYei ==
    [pc |-> "idle", sym |-> "", tried |-> <<>>, raw |-> <<>>, obsAt |-> <<>>,
     readAt |-> <<>>, yeiPrice |-> Null, quote |-> Null, next |-> 0]

\* the observation time, in seconds, a level's answer carries; -1: none
ObservedAt(l, ans) ==
    IF ans.k # "tuple" THEN 0 - 1
    ELSE IF l = "pyth" THEN ans.publishTime
    ELSE ans.timestamp

\* getPrice reaches its priority-3 block with price still null
YeiBlockStart(symbol) ==
    /\ yei.pc = "idle"
    /\ started < MaxStarts
    /\ started' = started + 1
    /\ yei' = IF ToUpper(symbol) \in yeiSupportedSymbols
              THEN [IdleYei EXCEPT !.pc = Levels[1], !.sym = symbol,
                                   !.tried = <<Levels[1]>>]
              ELSE [IdleYei EXCEPT !.pc = "done", !.sym = symbol,
                                   !.next = NextAdapter(3, symbol)]
    /\ UNCHANGED <<now, priceVars, fundingVars, ticks, schedVars, provVars, conv>>

\* level l of getYeiPrice returned out, built from the answer ans
LevelReturns(l, out, ans) ==
    LET r == [yei EXCEPT !.raw = Append(@, out),
                         !.obsAt = Append(@, ObservedAt(l, ans)),
                         !.readAt = Append(@, now)]
        p == LevelPrice(TryCatch(out, Null))
        yeiPrice == IF p # Null THEN p ELSE Throw
        accepted == Truthy(TryCatch(yeiPrice, Null))
                        /\ GtZero(TryCatch(yeiPrice, Null))
    IN  IF p = Null /\ NextLevel(l) # ""
        THEN yei' = [r EXCEPT !.pc = NextLevel(l),
                              !.tried = Append(@, NextLevel(l))]
        ELSE yei' = [r EXCEPT
                        !.pc = "done",
                        !.yeiPrice = yeiPrice,
                        !.quote = IF accepted
                                  THEN Quote(r.sym, yeiPrice, now,
                                             "yei-legacy-oracle",
                                             Hundredths(ConfDefault))
                                  ELSE Null,
                        !.next = IF accepted THEN 0 ELSE NextAdapter(3, r.sym)]

YeiAPI3Returns ==
    /\ yei.pc = "api3"
    /\ \E ans \in API3Answers(now) :
          LevelReturns("api3", getAPI3Price(yei.sym, ans, now), ans)
    /\ UNCHANGED <<now, priceVars, fundingVars, started, ticks, schedVars, provVars, conv>>

YeiPythReturns ==
    /\ yei.pc = "pyth"
    /\ \E ans \in YeiPythAnswers(now) :
          LevelReturns("pyth", getPythPrice(yei.sym, ans, now), ans)
    /\ UNCHANGED <<now, priceVars, fundingVars, started, ticks, schedVars, provVars, conv>>

YeiRedstoneReturns ==
    /\ yei.pc = "redstone"
    /\ \E ans \in RedstoneAnswers(now) :
          LevelReturns("redstone", getRedstonePrice(yei.sym, ans, now), ans)
    /\ UNCHANGED <<now, priceVars, fundingVars, started, ticks, schedVars, provVars, conv>>

\* getPrice goes on after the block
YeiBlockEnd ==
    /\ yei.pc = "done"
    /\ yei' = IdleYei
    /\ UNCHANGED <<now, priceVars, fundingVars, started, ticks, schedVars, provVars, conv>>

(* --------------------------- on-chain scaling -------------------------- *)

\* One read of each on-chain adapter, from the raw integers of the contract to
\* the number the adapter returns.  The raw integers are those whose scaled
\* value has no more than Scale decimal digits.

RawPrices == {0, 1, 25, 999, 2700}

RawMantissas == {0 - 3, 0, 1, 26, 265}

\* the reads: the adapter, its symbol and the answer of the contract
ScaleInputs(t) ==
    {[fn |-> "yeiMulti", sym |-> "SEI",
      ans |-> [k |-> "tuple", price |-> p, timestamp |-> t \div 1000,
               decimals |-> d]] : p \in RawPrices, d \in 0..Scale}
    \cup
    {[fn |-> "pyth", sym |-> "SEI",
      ans |-> [k |-> "tuple", price |-> p, conf |-> 3, expo |-> e,
               publishTime |-> t \div 1000]] :
        p \in RawPrices \cup {0 - 5}, e \in (0 - Scale)..2}
    \cup
    {[fn |-> "api3", sym |-> "SEI",
      ans |-> [k |-> "tuple", value |-> Big(m, z), timestamp |-> t \div 1000]] :
        m \in RawMantissas, z \in (API3Decimals - Scale)..API3Decimals}
    \cup
    {[fn |-> "redstone", sym |-> "USDC",
      ans |-> [k |-> "tuple", price |-> Big(m, z), timestamp |-> t \div 1000]] :
        m \in RawMantissas, z \in (RedstoneDecimals - Scale)..RedstoneDecimals}

\* the adapter runs from the return of readContract to its own return
Convert ==
    /\ conv.pc = "read"
    /\ conv' = [conv EXCEPT
          !.pc = "done",
          !.out = CASE conv.fn = "yeiMulti" ->
                         getYeiMultiOraclePrice(conv.sym, conv.ans, now)
                    [] conv.fn = "pyth" ->
                         getPythPrice(conv.sym, conv.ans, now)
                    [] conv.fn = "api3" ->
                         getAPI3Price(conv.sym, conv.ans, now)
                    [] conv.fn = "redstone" ->
                         getRedstonePrice(conv.sym, conv.ans, now)]
    /\ UNCHANGED <<now, priceVars, fundingVars, started, ticks, schedVars,
                   provVars, yei>>

(* ------------------------------- clock --------------------------------- *)

TickSteps == {5000, 30000}

Tick ==
    /\ ticks < MaxTicks
    /\ ticks' = ticks + 1
    /\ \E d \in TickSteps : now' = now + d
    /\ UNCHANGED <<priceVars, fundingVars, started, schedVars, provVars, conv, yei>>

\* Steps of the clock shorter than the period of the timer.  With MaxTicks
\* of them a behaviour spans less than one period: a timer that is due at
\* Init fires, and no timer set or re-armed in the behaviour comes due.
ShortSteps == {5000}

\* the clock advances by a step of S
Elapse(S) ==
    /\ ticks < MaxTicks
    /\ ticks' = ticks + 1
    /\ \E d \in S : now' = now + d
    /\ UNCHANGED <<priceVars, fundingVars, started, schedVars, provVars, conv, yei>>

(* ---------------------------- specification ---------------------------- *)

InitProvider ==
    /\ now = T0
    /\ priceCache = [s \in PriceKeys |-> Null]
    /\ priceInsertedAt = [s \in PriceKeys |-> 0 - 1]
    /\ calls = [c \in CallIds \cup TickCallIds |-> IdleCall]
    /\ fundingRateCache = [s \in FundingKeys |-> Null]
    /\ fundingInsertedAt = [s \in FundingKeys |-> 0 - 1]
    /\ fcalls = [f \in FCallIds \cup TickFCallIds |-> IdleFCall]
    /\ started = 0
    /\ ticks = 0
    /\ intervalHandle = 0
    /\ timers = {}
    /\ timersCreated = 0
    /\ lastOp = "none"
    /\ ops = 0
    /\ stoppedIn = [r \in RunIds |-> "none"]
    /\ inFlightAtStop = {}
    /\ runs = <<>>
    /\ oracleInstance = 0
    /\ constructed = 0
    /\ gets = 0
    /\ tick = NoTick
    /\ yei = IdleYei

Init == InitProvider /\ conv = IdleConv

\* one on-chain read has returned and its adapter is about to scale it
ScaleInit ==
    /\ InitProvider
    /\ \E i \in ScaleInputs(T0) :
          conv = [pc |-> "read", fn |-> i.fn, sym |-> i.sym, ans |-> i.ans,
                  out |-> Null]

\* the Quote getPrice(s) stores when the first upstream it asks answers
\* plainly at time t
WarmQuote(s, t) ==
    IF s \in YeiMultiOracleSymbols
    THEN getYeiMultiOraclePrice(s, PlainAnswer("yei-multi", t), t)
    ELSE getCoinGeckoPrice(s, PlainAnswer("coingecko", t), t)

\* the list getFundingRates(s) stores when the three exchanges answer plainly
\* at time t
WarmRates(s, t) ==
    List(FilterNonNull([x \in ExchangeSet |->
            getExchangeFundingRate(x, s, PlainExchangeAnswer(x), t)], 1))

\* A provider whose callers have called getPrice and getFundingRates for the
\* watch-list symbols not in `cold` at time `at`: every upstream answered
\* plainly and the calls have returned, so that both caches hold the entries
\* of those calls and none for `cold`.  startPriceUpdates was called once
\* and its timer is due at time `due`.  inst is 1 for the provider made by a
\* first oracleProvider.get and 0 for one constructed directly, g is the
\* number of calls of oracleProvider.get so far.  The histories of getPrice
\* calls, clock steps and runs of the callback count from this state on.
InitStarted(inst, g, cold, at, due) ==
    /\ now = T0
    /\ priceCache = [s \in PriceKeys |->
                        IF s \in TickSymbolSet \ cold
                        THEN WarmQuote(s, at) ELSE Null]
    /\ priceInsertedAt = [s \in PriceKeys |->
                        IF s \in TickSymbolSet \ cold THEN at ELSE 0 - 1]
    /\ calls = [c \in CallIds \cup TickCallIds |-> IdleCall]
    /\ fundingRateCache = [s \in FundingKeys |->
                        IF s \in TickSymbolSet \ cold
                        THEN WarmRates(s, at) ELSE Null]
    /\ fundingInsertedAt = [s \in FundingKeys |->
                        IF s \in TickSymbolSet \ cold THEN at ELSE 0 - 1]
    /\ fcalls = [f \in FCallIds \cup TickFCallIds |-> IdleFCall]
    /\ started = 0
    /\ ticks = 0
    /\ intervalHandle = 1
    /\ timers = {[id |-> 1, due |-> due]}
    /\ timersCreated = 1
    /\ lastOp = "start"
    /\ ops = 1
    /\ stoppedIn = [r \in RunIds |-> "none"]
    /\ inFlightAtStop = {}
    /\ runs = <<>>
    /\ oracleInstance = inst
    /\ constructed = inst
    /\ gets = g
    /\ tick = NoTick
    /\ yei = IdleYei
    /\ conv = IdleConv

\* a provider just constructed, or one started a period ago whose timer is
\* due now and whose callers have just read the watch-list symbols but ETH,
\* the symbol every adapter knows
SchedulerInit == Init \/ InitStarted(0, 0, {"ETH"}, T0, T0)

\* the exported provider one period after the first oracleProvider.get, its
\* timer due now, its callers having just read the watch-list symbols but
\* one, whichever
RefreshInit == \E s \in TickSymbolSet : InitStarted(1, 1, {s}, T0, T0)

\* before the first oracleProvider.get, or one period after it with the
\* timer due now and the watch-list symbols but ETH just read
ProviderInit == Init \/ InitStarted(1, 1, {"ETH"}, T0, T0)

\* the age of the entries of the caches at FrameInit
EntryAge == 25000

\* the time the timer started at Init is due
PeriodEnd == T0 + updateInterval * 1000

\* a provider whose callers read the watch-list symbols 25 s ago and on
\* which startPriceUpdates has just been called: the entries expire 5 s
\* from now, the timer is due 30 s from now
FrameInit == InitStarted(0, 0, {}, T0 - EntryAge, PeriodEnd)

\* callers' getPrice calls for the symbols of S
PriceNextFor(S) ==
    \/ \E c \in CallIds, s \in S : GetPriceStart(c, s)
    \/ \E c \in CallIds, ans \in YeiMultiAnswers(now) : YeiMultiOracleReturns(c, ans)
    \/ \E c \in CallIds, ans \in CoinGeckoAnswers : CoinGeckoReturns(c, ans)
    \/ \E c \in CallIds, l \in LevelSet : \E ans \in LevelAnswers(l, now) :
          YeiLevelReturns(c, l, ans)
    \/ \E c \in CallIds, ans \in PythAnswers(now) : PythReturns(c, ans)
    \/ \E c \in CallIds, ans \in CexAnswers : CexReturns(c, ans)
    \/ \E c \in CallIds : GetPriceReturn(c)
    \/ Tick

PriceNext == PriceNextFor(Symbols)

FundingNext ==
    \/ \E f \in FCallIds, s \in FundingSymbols : GetFundingRatesStart(f, s)
    \/ \E f \in FCallIds, x \in ExchangeSet : \E ans \in ExchangeAnswers(x) :
          ExchangeReturns(f, x, ans)
    \/ \E f \in FCallIds : GetFundingRatesJoin(f)
    \/ \E f \in FCallIds : GetFundingRatesReturn(f)
    \/ Tick

\* callers ask funding rates, and prices for the symbol every adapter knows
Next == PriceNextFor({"SEI"}) \/ FundingNext

\* the calls of C that await adapter k
Awaiting(C, k) == {c \in C : calls[c].pc = AdapterPc(k)}

\* the calls of F that await their three exchanges
FanningOut(F) == {f \in F : fcalls[f].pc = "fanout"}

\* The getPrice calls C and the getFundingRates calls F go on from an await:
\* a request is answered, or Promise.all settles.  Each request is answered
\* on its own, at any time, in any order, with any answer of its upstream.
CallSteps(C, F) ==
    \/ \E c \in Awaiting(C, 1), ans \in YeiMultiAnswers(now) :
          YeiMultiOracleReturns(c, ans)
    \/ \E c \in Awaiting(C, 2), ans \in CoinGeckoAnswers :
          CoinGeckoReturns(c, ans)
    \/ \E c \in Awaiting(C, 3), l \in LevelSet : \E ans \in LevelAnswers(l, now) :
          YeiLevelReturns(c, l, ans)
    \/ \E c \in Awaiting(C, 4), ans \in PythAnswers(now) :
          PythReturns(c, ans)
    \/ \E c \in Awaiting(C, 5), ans \in CexAnswers :
          CexReturns(c, ans)
    \/ \E f \in FanningOut(F), x \in ExchangeSet : \E ans \in ExchangeAnswers(x) :
          ExchangeReturns(f, x, ans)
    \/ \E f \in FanningOut(F) : GetFundingRatesJoin(f)

\* the getPrice and getFundingRates calls of callers go on and return
QueryNext ==
    \/ CallSteps(CallIds, FCallIds)
    \/ \E c \in CallIds : GetPriceReturn(c)
    \/ \E f \in FCallIds : GetFundingRatesReturn(f)

\* callers ask prices for two symbols and funding rates for two, on a
\* provider whose timer is not due before PeriodEnd, up to that time
FrameNext ==
    \/ \E c \in CallIds, s \in {"SEI", "BTC"} : GetPriceStart(c, s)
    \/ \E f \in FCallIds, s \in FundingSymbols : GetFundingRatesStart(f, s)
    \/ QueryNext
    \/ Elapse(ShortSteps) /\ now' < PeriodEnd

\* the timer callback: a timer that is due fires, the getPrice and the
\* getFundingRates calls of a run go on as those of any caller do, and the
\* two Promise.all of a run settle
CallbackNext ==
    \/ TimerFires
    \/ CallSteps(TickCallIds, TickFCallIds)
    \/ \E r \in RunIds : TickPricesJoin(r)
    \/ \E r \in RunIds : TickFundingJoin(r)

\* startPriceUpdates, stopPriceUpdates, the timer callback and the clock
SchedulerNext ==
    \/ StartPriceUpdates
    \/ StopPriceUpdates
    \/ CallbackNext
    \/ Elapse(ShortSteps)

\* the messages for which oracleProvider.get makes no query
QuietMessages == {m \in Messages : m.symbols = <<>>}

\* the timer callback of the exported provider, calls of oracleProvider.get
\* that make no query, and the clock
RefreshNext ==
    \/ \E m \in QuietMessages : ProviderGet(m)
    \/ CallbackNext
    \/ Elapse(ShortSteps)

\* oracleProvider.get, the calls its queries make, the timer callback and the
\* clock
ProviderNext ==
    \/ \E m \in Messages : ProviderGet(m)
    \/ QueryNext
    \/ CallbackNext
    \/ Elapse(ShortSteps)

\* callers' getPrice calls for one ticker in upper and in lower case
CaseNext == PriceNextFor(CaseSymbols)

ScaleNext == Convert

LegacyNext ==
    \/ \E s \in LegacySymbols : YeiBlockStart(s)
    \/ YeiAPI3Returns
    \/ YeiPythReturns
    \/ YeiRedstoneReturns
    \/ YeiBlockEnd
    \/ Tick

\* every call of the provider
Spec == Init /\ [][Next]_vars

\* getPrice calls only
PriceSpec == Init /\ [][PriceNext]_vars

\* getFundingRates calls only
FundingSpec == Init /\ [][FundingNext]_vars

\* getPrice and getFundingRates calls, two symbols each, beside a timer
FrameSpec == FrameInit /\ [][FrameNext]_vars

\* the refresh timer: start, stop and the timer callback
SchedulerSpec == SchedulerInit /\ [][SchedulerNext]_vars

\* the refresh timer of the exported provider
RefreshSpec == RefreshInit /\ [][RefreshNext]_vars

\* the exported provider
ProviderSpec == ProviderInit /\ [][ProviderNext]_vars

\* getPrice calls for one ticker in upper and in lower case
CaseSpec == Init /\ [][CaseNext]_vars

\* the scaling of on-chain integers by the adapters
ScaleSpec == ScaleInit /\ [][ScaleNext]_vars

\* the priority-3 block of getPrice, level by level
LegacySpec == Init /\ [][LegacyNext]_vars

(* ------------------------------- claims -------------------------------- *)

\* the validity predicate of a Quote: price finite and > 0
ValidQuote(q) == q.k = "quote" /\ IsFinite(q.price) /\ GtZero(q.price)

\* the call ran a cascade (a cache miss)
Fetched(r) == r.invoked # <<>>

\* C1: on a cache miss the adapters are called one after another in the order
\* 1, 2, 3, 4, 5 (adapter 3 only for the symbols of its allow-list); an adapter
\* is called only after every adapter before it returned without a Quote; a
\* valid Quote is the last answer of the cascade and is the result of the call.
C1_CascadeOrder ==
    \A c \in CallIds :
        LET r == calls[c]
            n == Len(r.invoked)
        IN  Fetched(r) =>
              /\ r.invoked[1] = 1
              /\ \A i \in 1..(n - 1) :
                    \/ r.invoked[i + 1] = r.invoked[i] + 1
                    \/ /\ r.invoked[i] = 2
                       /\ r.invoked[i + 1] = 4
                       /\ ToUpper(r.sym) \notin yeiSupportedSymbols
              /\ Len(r.outs) = IF r.pc = "done" THEN n ELSE n - 1
              /\ \A i \in 1..Len(r.outs) : i < n => r.outs[i] = Null
              /\ \A i \in 1..Len(r.outs) :
                    ValidQuote(r.outs[i]) =>
                        i = n /\ r.pc = "done" /\ r.result = r.outs[i]

\* C1 witness: adapters 1 and 2 returned nothing and adapter 3 won
C1_Witness ==
    \E c \in CallIds :
        /\ calls[c].pc = "done"
        /\ calls[c].invoked = <<1, 2, 3>>
        /\ ValidQuote(calls[c].result)
        /\ calls[c].result.source = "yei-legacy-oracle"

\* C2: the cascade ends before adapter 5 only on a valid Quote, and getPrice
\* returns null only when adapter 5 too gave no valid Quote.
C2_NoEarlyEnd ==
    \A c \in CallIds :
        LET r == calls[c]
            n == Len(r.invoked)
        IN  (r.pc = "done" /\ Fetched(r)) =>
              /\ r.invoked[n] < 5 => ValidQuote(r.outs[n])
              /\ r.result = Null => (r.invoked[n] = 5 /\ ~ValidQuote(r.outs[n]))
              /\ r.result # Null => ValidQuote(r.result)

\* C3: every Quote in the price cache and every Quote returned by getPrice
\* has a finite price > 0.
C3_FinitePositive ==
    /\ \A s \in Symbols : priceCache[s] # Null => ValidQuote(priceCache[s])
    /\ \A c \in CallIds :
          (calls[c].pc = "done" /\ calls[c].result # Null) =>
              ValidQuote(calls[c].result)

\* C4: a call that starts less than 30 s after the entry of its symbol was
\* stored returns that entry and calls no adapter.
C4_FreshByInsertion ==
    \A c \in CallIds :
        LET r == calls[c]
        IN  (/\ r.pc # "idle"
             /\ r.insAtStart >= 0
             /\ r.startedAt - r.insAtStart < 30000) =>
                (r.pc = "done" /\ ~Fetched(r) /\ r.result = r.cacheSeen)

\* C5: a call that starts 30 s or more after the entry of its symbol was
\* stored does not return the entry: it runs a cascade.
C5_ExpiredByInsertion ==
    \A c \in CallIds :
        LET r == calls[c]
        IN  (/\ r.pc # "idle"
             /\ r.insAtStart >= 0
             /\ r.startedAt - r.insAtStart >= 30000) => Fetched(r)

\* two getPrice("SEI") calls started within 5 s of each other
Within5s(r1, r2) ==
    /\ r1.pc # "idle" /\ r2.pc # "idle"
    /\ r1.sym = "SEI" /\ r2.sym = "SEI"
    /\ r2.startedAt >= r1.startedAt
    /\ r2.startedAt - r1.startedAt <= 5000

\* C6 as claimed: of two finished getPrice("SEI") calls started within 5 s of
\* each other with every adapter available, exactly one sent requests upstream.
C6_ExactlyOneFetch ==
    \A c1, c2 \in CallIds :
        (/\ c1 # c2
         /\ Within5s(calls[c1], calls[c2])
         /\ calls[c1].pc = "done" /\ calls[c2].pc = "done"
         /\ calls[c1].allOk /\ calls[c2].allOk) =>
            (calls[c1].upstream = <<>>) # (calls[c2].upstream = <<>>)

\* C7: getPrice ends with a Quote or null and getFundingRates with a list,
\* never with a fault, whatever the upstream answers.
C7_NoFault ==
    /\ \A c \in CallIds :
          /\ calls[c].result.k \in {"null", "quote"}
          /\ \A i \in 1..Len(calls[c].outs) :
                calls[c].outs[i].k \in {"null", "quote"}
    /\ \A f \in FCallIds :
          /\ fcalls[f].pc = "done" => fcalls[f].result.k = "list"
          /\ fcalls[f].pc # "done" => fcalls[f].result = Null
          /\ \A x \in ExchangeSet : fcalls[f].rates[x].k \in {"null", "rate"}

\* C7 witness: a getPrice call whose five adapters all failed returned null
\* and a getFundingRates call whose three requests all failed returned []
C7_Witness ==
    /\ \E c \in CallIds :
          /\ calls[c].pc = "done"
          /\ calls[c].invoked = <<1, 2, 3, 4, 5>>
          /\ calls[c].upstream = <<1, 2, 3, 4, 5>>
          /\ ~calls[c].allOk
          /\ calls[c].result = Null
    /\ \E f \in FCallIds :
          /\ fcalls[f].pc = "done"
          /\ \A x \in ExchangeSet : fcalls[f].ans[x] = Failed
          /\ fcalls[f].result = List(<<>>)

\* C8: on a miss the three requests are in flight together: none is
\* unstarted once the call awaits, none completes before all have started,
\* and the call returns only when all three have completed.
C8_ConcurrentFanOut ==
    \A f \in FCallIds :
        LET r == fcalls[f]
        IN  /\ r.pc = "fanout" => \A x \in ExchangeSet : r.req[x] # "none"
            /\ (\E x \in ExchangeSet : r.req[x] = "done") =>
                  \A y \in ExchangeSet : r.req[y] # "none"
            /\ r.pc = "done" =>
                  \/ \A x \in ExchangeSet : r.req[x] = "none"
                  \/ \A x \in ExchangeSet : r.req[x] = "done"

\* C8 witness: Bybit and OKX have answered while Binance is still pending
C8_Witness ==
    \E f \in FCallIds :
        /\ fcalls[f].pc = "fanout"
        /\ fcalls[f].req["Binance"] = "pending"
        /\ fcalls[f].req["Bybit"] = "done"
        /\ fcalls[f].req["OKX"] = "done"

\* the raw periodic rate each exchange quotes: 0.01, -0.02, 0.03
RawRateHundredths(x) ==
    CASE x = "Binance" -> 1 [] x = "Bybit" -> 0 - 2 [] x = "OKX" -> 3

\* the request succeeded: status 200 and a body carrying the quoted rate
Succeeded(x, ans) ==
    /\ ans.k = "ok"
    /\ CASE x = "Binance" -> ans.lastFundingRate = BinanceRateString
         [] x = "Bybit" ->
                ans.list # <<>> /\ ans.list[1].fundingRate = BybitRateString
         [] x = "OKX" ->
                ans.data # <<>> /\ ans.data[1].fundingRate = OkxRateString

\* C9: after a fan-out the returned list has exactly one entry for each
\* exchange whose request succeeded, with rate = raw rate * 8760, and none
\* for an exchange whose request failed.
C9_SurvivingRates ==
    \A f \in FCallIds :
        LET r == fcalls[f]
        IN  (r.pc = "done" /\ \A x \in ExchangeSet : r.req[x] = "done") =>
              \A x \in ExchangeSet :
                 LET l == r.result.list
                     es == {i \in 1..Len(l) : l[i].exchange = x}
                 IN  /\ Succeeded(x, r.ans[x]) =>
                          /\ Cardinality(es) = 1
                          /\ \A i \in es :
                                /\ l[i].rate =
                                     Hundredths(RawRateHundredths(x) * 8760)
                                /\ l[i].symbol = r.sym
                     /\ r.ans[x].k \in {"failed", "notok"} => es = {}
                     /\ r.rates[x] = Null => es = {}
                     /\ Cardinality(es) <= 1

\* C9 witness: Bybit failed, Binance and OKX succeeded, two entries returned
C9_Witness ==
    \E f \in FCallIds :
        /\ fcalls[f].pc = "done"
        /\ fcalls[f].ans["Bybit"] = Failed
        /\ Succeeded("Binance", fcalls[f].ans["Binance"])
        /\ Succeeded("OKX", fcalls[f].ans["OKX"])
        /\ Len(fcalls[f].result.list) = 2
        /\ fcalls[f].result.list[1].exchange = "Binance"
        /\ fcalls[f].result.list[2].exchange = "OKX"

NoNaNFields(l) ==
    \A i \in 1..Len(l) :
        /\ ~isNaN(l[i].rate)
        /\ ~isNaN(l[i].timestamp)
        /\ ~isNaN(l[i].nextFundingTime)

\* C10: no FundingRate that is returned or cached has a NaN rate, timestamp
\* or nextFundingTime.
C10_NoNaNRates ==
    /\ \A f \in FCallIds :
          fcalls[f].pc = "done" => NoNaNFields(fcalls[f].result.list)
    /\ \A s \in FundingSymbols :
          fundingRateCache[s] # Null => NoNaNFields(fundingRateCache[s].list)

\* the getFundingRates call sent requests to the exchanges
FanOutRan(r) == \E x \in ExchangeSet : r.req[x] # "none"

\* C11: a getFundingRates call that finds a list stored at time t for its
\* symbol returns that list without any exchange request when it starts less
\* than 30 s after t, and runs a fan-out when it starts 30 s or more after t.
C11_FundingFreshByInsertion ==
    \A f \in FCallIds :
        LET r == fcalls[f]
        IN  (r.pc # "idle" /\ r.insAtStart >= 0) =>
              IF r.startedAt - r.insAtStart < 30000
              THEN r.pc = "done" /\ ~FanOutRan(r) /\ r.result = r.cacheSeen
              ELSE FanOutRan(r)

\* C12: after a fan-out the call returns exactly the surviving entries, in
\* the order Binance, Bybit, OKX; a non-empty result replaces the cache entry
\* of the symbol, an empty result leaves the cache as it was, and the cache
\* never holds an empty list.
C12_CacheSurvivors ==
    /\ [](\A s \in FundingSymbols :
            fundingRateCache[s] # Null => Len(fundingRateCache[s].list) > 0)
    /\ [][\A f \in FCallIds :
            (fcalls[f].pc = "fanout" /\ fcalls'[f].pc = "done") =>
                LET r == fcalls'[f]
                    res == r.result.list
                    alive == {x \in ExchangeSet : r.rates[x] # Null}
                IN  /\ Len(res) = Cardinality(alive)
                    /\ \A x \in alive : \E i \in 1..Len(res) : res[i] = r.rates[x]
                    /\ \A i, j \in 1..Len(res) :
                          (i < j) =>
                             \E a, b \in 1..Len(Exchanges) :
                                /\ a < b
                                /\ res[i].exchange = Exchanges[a]
                                /\ res[j].exchange = Exchanges[b]
                    /\ IF Len(res) > 0
                       THEN fundingRateCache' =
                                [fundingRateCache EXCEPT ![r.sym] = r.result]
                       ELSE fundingRateCache' = fundingRateCache]_vars

\* C12 witness: a fan-out that found an older list in the cache has replaced
\* it with its own, different, surviving list
C12_Witness ==
    \E f \in FCallIds :
        LET r == fcalls[f]
        IN  /\ r.pc = "done"
            /\ FanOutRan(r)
            /\ r.cacheSeen # Null
            /\ Len(r.result.list) > 0
            /\ r.result # r.cacheSeen
            /\ \E x \in ExchangeSet : r.rates[x] = Null
            /\ fundingRateCache[r.sym] = r.result

\* a startPriceUpdates / stopPriceUpdates call is made in this step
StartStep == ops' = ops + 1 /\ lastOp' = "start"

StopStep == ops' = ops + 1 /\ lastOp' = "stop"

\* C13: at most one timer is active, exactly one (the one the provider
\* holds) when the last call was a start and none when it was a stop or when
\* no call was made; a start with a timer active leaves the timer and its due
\* time as they are; a start with none active creates a timer never used
\* before, due one period later.
C13_SingleTimer ==
    /\ [](/\ Cardinality(timers) <= 1
          /\ lastOp = "start" =>
                /\ Cardinality(timers) = 1
                /\ \A t \in timers : t.id = intervalHandle
          /\ lastOp \in {"stop", "none"} =>
                timers = {} /\ intervalHandle = 0)
    /\ [][StartStep =>
            IF timers # {}
            THEN timers' = timers /\ intervalHandle' = intervalHandle
            ELSE /\ timersCreated' = timersCreated + 1
                 /\ timers' = {[id |-> timersCreated',
                                due |-> now + 30 * 1000]}
                 /\ \A t \in timers', r \in RunIds :
                       t.id # tick[r].timer]_vars

\* C13 witness: start, stop, start: the second timer is the only one active
C13_Witness ==
    /\ ops = 3
    /\ lastOp = "start"
    /\ timersCreated = 2
    /\ timers = {[id |-> 2, due |-> now + 30 * 1000]}
    /\ intervalHandle = 2

\* a run of the timer callback begins in this step
TickBegins ==
    \E r \in RunIds : tick[r].phase = "idle" /\ tick'[r].phase # "idle"

\* the timer callback sends a price or a funding-rate request in this step
TickRequestsOf(r) ==
    \/ \E c \in TickCallsOf(r) :
          \/ Len(calls'[c].upstream) > Len(calls[c].upstream)
          \/ Len(calls'[c].reads) > Len(calls[c].reads)
    \/ \E f \in TickFCallsOf(r) :
          FanOutRan(fcalls'[f]) /\ ~FanOutRan(fcalls[f])

TickRequests == \E r \in RunIds : TickRequestsOf(r)

\* C14 as claimed: once stopPriceUpdates has returned, and until the next
\* start, no run of the callback begins and the callback sends no price and
\* no funding-rate request, also when a run was in progress at the stop.
C14_NoRequestsAfterStop ==
    [][lastOp = "stop" => ~TickBegins /\ ~TickRequests]_vars

\* C14 amended: once stopPriceUpdates has returned, and until the next start,
\* no timer is left and no run of the callback begins; when no run was in
\* progress at the stop the callback sends no request at all; a run that was
\* in progress at the stop is the only sender of requests.
C14_NoTickAfterStop ==
    /\ [](lastOp = "stop" =>
            /\ timers = {}
            /\ \A r \in RunIds :
                  stoppedIn[r] = "idle" =>
                      /\ tick[r].phase = "idle"
                      /\ \A c \in TickCallsOf(r) : calls[c].pc = "idle"
                      /\ \A f \in TickFCallsOf(r) : fcalls[f].pc = "idle")
    /\ [][lastOp = "stop" =>
            /\ ~TickBegins
            /\ \A r \in RunIds :
                  TickRequestsOf(r) =>
                      stoppedIn[r] # "idle" /\ tick[r].phase # "idle"]_vars

\* C14 witness: stop was called while the callback awaited its price calls,
\* and the callback has since sent its funding-rate requests
C14_Witness ==
    /\ lastOp = "stop"
    /\ timers = {}
    /\ \E r \in RunIds :
          /\ stoppedIn[r] = "prices"
          /\ tick[r].phase = "funding"
          /\ \E f \in TickFCallsOf(r) : FanOutRan(fcalls[f])

\* the identifier each adapter writes in the source field
AdapterSource(k) ==
    CASE k = 1 -> "YEI Multi-Oracle"
      [] k = 2 -> "CoinGecko"
      [] k = 3 -> "yei-legacy-oracle"
      [] k = 4 -> "pyth"
      [] k = 5 -> "Binance"

\* C15: the Quote a cascade returns carries the requested symbol and is the
\* Quote of the adapter named in its source field; that adapter produced a
\* valid price (finite, > 0) and no adapter before it did; when adapter 2 wins
\* for BTC with 65000.5 the result is {BTC, 65000.5, CoinGecko, 0.95}.
C15_WinnerSource ==
    \A c \in CallIds :
        LET r == calls[c]
            n == Len(r.invoked)
        IN  (r.pc = "done" /\ Fetched(r) /\ r.result # Null) =>
              /\ r.result.symbol = r.sym
              /\ r.result = r.outs[n]
              /\ r.result.source = AdapterSource(r.invoked[n])
              /\ ValidQuote(r.outs[n])
              /\ \A i \in 1..(n - 1) : ~ValidQuote(r.outs[i])
              /\ r.invoked[n] = 2 =>
                    r.result.confidence = Hundredths(95)
              /\ (r.sym = "BTC" /\ r.invoked[n] = 2
                    /\ r.result.price = MulPow10(650005, 0 - 1)) =>
                    r.result = Quote("BTC", MulPow10(650005, 0 - 1),
                                     r.result.timestamp, "CoinGecko",
                                     Hundredths(95))

\* the Quotes getPrice has returned to a caller or holds in the price cache
QuotesHeld ==
    {priceCache[s] : s \in {k \in PriceKeys : priceCache[k] # Null}}
        \cup {calls[c].result :
                c \in {d \in CallIds : calls[d].pc = "done"
                                          /\ calls[d].result # Null}}

\* a number of the interval [0, 1]
InUnit(x) == x.k = "fin" /\ x.v >= 0 /\ x.v <= Pow10(Scale)

\* C16: the confidence of every Quote returned or cached lies in [0, 1] and
\* is the constant of the adapter named in its source: 0.98 for adapter 1,
\* 0.95 for adapters 2, 3 and 5, and one value for all Quotes of adapter 4.
C16_ConstantConfidence ==
    /\ \A q \in QuotesHeld :
          /\ InUnit(q.confidence)
          /\ q.source = AdapterSource(1) => q.confidence = Hundredths(98)
          /\ q.source \in {AdapterSource(2), AdapterSource(3), AdapterSource(5)}
                => q.confidence = Hundredths(95)
    /\ \A q1, q2 \in QuotesHeld :
          q1.source = q2.source => q1.confidence = q2.confidence

\* C17: adapter 1 returns the Quote of a non-zero price whose on-chain
\* timestamp is more than one hour old; getPrice returns that Quote and calls
\* no other adapter.
C17_StaleAccepted ==
    /\ \A s \in Symbols, ans \in YeiMultiAnswers(now) :
          (/\ ToUpper(s) \in {"SEI", "USDC", "USDT", "ETH"}
           /\ ans # Failed
           /\ ans.price # 0
           /\ now - ans.timestamp * 1000 > 3600000) =>
              getYeiMultiOraclePrice(s, ans, now) =
                  Quote(s, DivPow10(ans.price, ans.decimals),
                        ans.timestamp * 1000, AdapterSource(1), Hundredths(98))
    /\ \A c \in CallIds :
          LET r == calls[c]
          IN  (/\ Len(r.outs) >= 1
               /\ r.outs[1].k = "quote"
               /\ r.startedAt - r.outs[1].timestamp > 3600000) =>
                  /\ r.pc = "done"
                  /\ r.result = r.outs[1]
                  /\ r.invoked = <<1>>
                  /\ r.upstream = <<1>>

\* C17 witness: a call has returned adapter 1's Quote of an observation made
\* more than one hour before the call started
C17_Witness ==
    \E c \in CallIds :
        LET r == calls[c]
        IN  /\ r.pc = "done"
            /\ r.invoked = <<1>>
            /\ r.result.k = "quote"
            /\ r.result.source = AdapterSource(1)
            /\ r.startedAt - r.result.timestamp > 3600000
            /\ priceCache[r.sym] = r.result

\* the price level i of the legacy cascade gave, Null when it threw or gave
\* nothing > 0
GaveAt(i) == LevelPrice(TryCatch(yei.raw[i], Null))

\* C18: a level of the legacy cascade whose observation was more than one
\* hour old when it was read gives no price, so the Quote with source
\* 'yei-legacy-oracle' is built from an observation at most one hour old.
C18_LegacyFresh ==
    /\ \A i \in 1..Len(yei.raw) :
          (yei.obsAt[i] >= 0 /\ (yei.readAt[i] \div 1000) - yei.obsAt[i] > 3600)
              => GaveAt(i) = Null
    /\ yei.quote # Null =>
          LET i == Len(yei.raw)
          IN  (yei.readAt[i] \div 1000) - yei.obsAt[i] <= 3600

\* C19: the levels are tried in the order API3, Pyth, Redstone; a level is
\* tried only after every level before it threw or gave nothing > 0, and such
\* a level is followed by the next one; Redstone gives a price only for USDT
\* and USDC; the block ends with the Quote of the first level that gave a
\* price, and with no Quote and adapter 4 next when no level did.
C19_LevelOrder ==
    LET n == Len(yei.tried)
    IN  /\ n <= 3
        /\ \A i \in 1..n : yei.tried[i] = <<"api3", "pyth", "redstone">>[i]
        /\ Len(yei.raw) = IF yei.pc \in {"done", "idle"} THEN n ELSE n - 1
        /\ \A i \in 1..Len(yei.raw) : i < n => GaveAt(i) = Null
        /\ \A i \in 1..Len(yei.raw) :
              (GaveAt(i) = Null /\ i < 3) => n >= i + 1
        /\ (Len(yei.raw) = 3 /\ GaveAt(3) # Null) => yei.sym \in {"USDT", "USDC"}
        /\ yei.pc = "done" =>
              IF n > 0 /\ GaveAt(n) # Null
              THEN /\ yei.quote.k = "quote"
                   /\ yei.quote.price = GaveAt(n)
                   /\ yei.quote.source = AdapterSource(3)
                   /\ yei.quote.symbol = yei.sym
                   /\ yei.next = 0
              ELSE /\ n \in {0, 3}
                   /\ n = 0 <=> yei.sym \notin {"BTC", "ETH", "SEI", "USDC", "USDT"}
                   /\ yei.quote = Null
                   /\ yei.next = 4

\* C19 witness: for USDC the API3 level threw, the Pyth level gave nothing,
\* the Redstone level gave 0, and getPrice goes on with adapter 4
C19_Witness ==
    /\ yei.pc = "done"
    /\ yei.sym = "USDC"
    /\ yei.tried = <<"api3", "pyth", "redstone">>
    /\ yei.raw = <<Throw, Null, Fin(0)>>
    /\ yei.yeiPrice = Throw
    /\ yei.quote = Null
    /\ yei.next = 4

\* the symbols each adapter has in its map or allow-list (default settings)
Mapped(k, s) ==
    CASE k = 1 -> ToUpper(s) \in {"SEI", "USDC", "USDT", "ETH"}
      [] k = 2 -> ToUpper(s) \in {"BTC", "ETH", "SEI", "USDC", "USDT", "SOL",
                                  "AVAX", "ATOM", "DAI"}
      [] k = 3 -> ToUpper(s) \in {"BTC", "ETH", "SEI", "USDC", "USDT"}
      [] k = 4 -> s \in {"BTC", "ETH", "SEI", "USDC"}
      [] k = 5 -> s \in {"BTC", "ETH", "SEI", "USDC", "SOL", "AVAX"}

\* C20: an adapter that does not know the symbol returns nothing whatever
\* the upstream would answer, sends no request, and the cascade goes on with
\* the next adapter (and ends with null after adapter 5); adapter 3 is not
\* even entered.
C20_FailsClosed ==
    /\ \A s \in Symbols :
          /\ ~Mapped(1, s) =>
                \A ans \in YeiMultiAnswers(now) :
                    getYeiMultiOraclePrice(s, ans, now) = Null
          /\ ~Mapped(2, s) =>
                \A ans \in CoinGeckoAnswers : getCoinGeckoPrice(s, ans, now) = Null
          /\ ~Mapped(4, s) =>
                \A ans \in PythAnswers(now) : getPythPrice(s, ans, now) = Null
          /\ ~Mapped(5, s) =>
                \A ans \in CexAnswers : getCexPrice(s, ans, now) = Null
    /\ \A c \in CallIds :
          LET r == calls[c]
          IN  \A i \in 1..Len(r.invoked) :
                 LET k == r.invoked[i]
                 IN  /\ k = 3 => Mapped(3, r.sym)
                     /\ ~Mapped(k, r.sym) =>
                          /\ \A j \in 1..Len(r.upstream) : r.upstream[j] # k
                          /\ r.pc # AdapterPc(k) =>
                                /\ r.outs[i] = Null
                                /\ IF k < 5
                                   THEN /\ i < Len(r.invoked)
                                        /\ r.invoked[i + 1] =
                                             IF k = 2 /\ ~Mapped(3, r.sym)
                                             THEN 4 ELSE k + 1
                                   ELSE r.pc = "done" /\ r.result = Null

\* C20 witness: for DOGE adapters 1, 2, 4 and 5 were called in turn, none
\* sent a request, and getPrice returned null
C20_Witness ==
    \E c \in CallIds :
        /\ calls[c].pc = "done"
        /\ calls[c].sym = "DOGE"
        /\ calls[c].invoked = <<1, 2, 4, 5>>
        /\ calls[c].upstream = <<>>
        /\ calls[c].result = Null

\* the symbols the calls in progress of a run of the callback are for
TickPriceSyms(cs, r) ==
    {cs[c].sym : c \in {d \in TickCallsOf(r) : cs[d].pc # "idle"}}

TickFundingSyms(fs, r) ==
    {fs[f].sym : f \in {d \in TickFCallsOf(r) : fs[d].pc # "idle"}}

\* a run of the callback begins in this step
RunBegins == Len(runs') > Len(runs)

TickProgress(r) ==
    \/ \E c \in TickCallsOf(r), ans \in YeiMultiAnswers(now) :
          YeiMultiOracleReturns(c, ans)
    \/ \E c \in TickCallsOf(r), ans \in CoinGeckoAnswers :
          CoinGeckoReturns(c, ans)
    \/ \E c \in TickCallsOf(r), l \in LevelSet :
          \E ans \in LevelAnswers(l, now) : YeiLevelReturns(c, l, ans)
    \/ \E c \in TickCallsOf(r), ans \in PythAnswers(now) : PythReturns(c, ans)
    \/ \E c \in TickCallsOf(r), ans \in CexAnswers : CexReturns(c, ans)
    \/ TickPricesJoin(r)
    \/ \E f \in TickFCallsOf(r), x \in ExchangeSet :
          \E ans \in ExchangeAnswers(x) : ExchangeReturns(f, x, ans)
    \/ \E f \in TickFCallsOf(r) : GetFundingRatesJoin(f)
    \/ TickFundingJoin(r)

\* C22: stopPriceUpdates leaves the callback in progress, its getPrice and
\* getFundingRates calls and both caches as they are; a callback in progress
\* can always take its next step, stopped or not, up to its end; after a stop
\* and until the next start no run of the callback begins.
C22_StopKeepsTick ==
    /\ [](\A r \in RunIds : tick[r].phase # "idle" => ENABLED TickProgress(r))
    /\ [][StopStep =>
            /\ tick' = tick
            /\ calls' = calls
            /\ fcalls' = fcalls
            /\ priceCache' = priceCache
            /\ fundingRateCache' = fundingRateCache]_vars
    /\ [][lastOp = "stop" => ~TickBegins]_vars

\* C22 witness: stop was called during the only run of the callback, while a
\* getPrice call awaited its adapter for a symbol neither cache had; the run
\* has since ended, and the price of that call and the list of funding rates
\* of its symbol are in the caches
C22_Witness ==
    /\ lastOp = "stop"
    /\ stoppedIn[1] = "prices"
    /\ Len(runs) = 1
    /\ tick = NoTick
    /\ \E c \in inFlightAtStop :
          /\ priceCache[TickSymbolOfCall(c)] # Null
          /\ fundingRateCache[TickSymbolOfCall(c)] # Null

\* the number m * 10^e, for e >= -Scale
Scaled(m, e) == Fin(m * Pow10(e + Scale))

\* C23: adapter 1 gives nothing for a raw price of 0 and else the Quote of
\* raw / 10^decimals; adapter 4 gives nothing for a raw price of 0 or below 0
\* and else the Quote of raw * 10^expo; the API3 level gives raw / 10^18 and
\* the Redstone level raw / 10^8.
C23_Scaling ==
    conv.pc = "done" =>
        LET a == conv.ans
        IN  CASE conv.fn = "yeiMulti" ->
                   IF a.price = 0 THEN conv.out = Null
                   ELSE /\ conv.out.k = "quote"
                        /\ conv.out.price = Scaled(a.price, 0 - a.decimals)
              [] conv.fn = "pyth" ->
                   IF a.price <= 0 THEN conv.out = Null
                   ELSE /\ conv.out.k = "quote"
                        /\ conv.out.price = Scaled(a.price, a.expo)
              [] conv.fn = "api3" ->
                   conv.out = Scaled(a.value.m, a.value.z - 18)
              [] conv.fn = "redstone" ->
                   conv.out = Scaled(a.price.m, a.price.z - 8)

\* C23 witness: adapter 1 has made 0.25 of the raw price 25 with 2 decimals
C23_Witness ==
    /\ conv.pc = "done"
    /\ conv.fn = "yeiMulti"
    /\ conv.ans.price = 25
    /\ conv.ans.decimals = 2
    /\ conv.out.k = "quote"
    /\ conv.out.price = Hundredths(25)

\* C24: every key of the price cache and the symbol of every Quote cached or
\* returned is an uppercase ticker; a call with a lowercase symbol returns a
\* Quote with the uppercase symbol, finds and writes the cache entry of the
\* uppercase symbol, and sends its requests through the same adapters.
C24_UpperCase ==
    /\ \A k \in PriceKeys :
          priceCache[k] # Null =>
              k = ToUpper(k) /\ priceCache[k].symbol = k
    /\ \A c \in CallIds :
          LET r == calls[c]
          IN  /\ (r.pc = "done" /\ r.result # Null) =>
                    r.result.symbol = ToUpper(r.sym)
              /\ r.pc # "idle" => r.cacheSeen = priceCache[ToUpper(r.sym)]
                                      \/ Fetched(r)
              /\ \A k \in 1..5 :
                    IssuesRequest(k, r.sym) = IssuesRequest(k, ToUpper(r.sym))

\* the getPrice call c ends a cascade with a Quote in this step
SucceedsNow(c) ==
    /\ calls[c].pc \notin {"idle", "done"}
    /\ calls'[c].pc = "done"
    /\ calls'[c].result # Null

\* C25: in the step in which a cascade ends with a Quote the price cache
\* entry of the symbol becomes that Quote, whatever it held, and no other entry
\* changes; in every other step the price cache stays as it is, so that an
\* entry is never removed and is replaced only by a cascade that succeeds.
C25_StoreOnSuccess ==
    /\ [][\A c \in CallIds :
            SucceedsNow(c) =>
                /\ priceCache'[calls[c].sym] = calls'[c].result
                /\ priceCache' =
                      [priceCache EXCEPT ![calls[c].sym] = calls'[c].result]]_vars
    /\ [][(\A c \in CallIds : ~SucceedsNow(c)) => priceCache' = priceCache]_vars
    /\ [][\A k \in PriceKeys : priceCache[k] # Null => priceCache'[k] # Null]_vars

\* C25 witness: a call that found an expired entry for its symbol has ended
\* its cascade with another Quote, which is now the entry
C25_Witness ==
    \E c \in CallIds :
        LET r == calls[c]
        IN  /\ r.pc = "done"
            /\ Fetched(r)
            /\ r.cacheSeen # Null
            /\ r.startedAt - r.cacheSeen.timestamp >= 30 * 1000
            /\ r.result # Null
            /\ r.result # r.cacheSeen
            /\ priceCache[r.sym] = r.result

\* in every run of the callback so far the upstreams were reachable, and
\* every answer was the plain one
AllUp == \A i \in 1..Len(runs) : runs[i].failed = 0 /\ runs[i].other = 0

\* the first run of the callback has ended
FirstRunOver == Len(runs) >= 1 /\ tick[1].phase = "idle"

\* every getPrice call of the callback in progress sent requests upstream
C26_EveryTickFetches ==
    \A c \in TickCallIds : calls[c].pc # "idle" => Fetched(calls[c])

\* a getPrice call of the callback that has ended has written, in this run,
\* the entry of its symbol
C26_EveryTickRewrites ==
    \A c \in TickCallIds :
        calls[c].pc = "done" =>
            /\ calls[c].result # Null
            /\ priceCache[calls[c].sym] = calls[c].result
            /\ priceInsertedAt[calls[c].sym] >= tick[RunOfCall(c)].firedAt

\* a getPrice call starting now would be answered from the cache
C26_WatchListFresh ==
    \A s \in {"BTC", "ETH", "SEI"} : CacheFresh(priceCache[s], now)

\* C26: with the timer running and the upstreams reachable in every run,
\* every getPrice call of every run sends requests upstream and writes the
\* entry of its symbol, none is answered from the entry of the run before, and
\* once the first run has ended the entries of BTC, ETH and SEI are never
\* expired.
C26_ProactiveRefresh ==
    AllUp =>
        /\ C26_EveryTickFetches
        /\ C26_EveryTickRewrites
        /\ FirstRunOver => C26_WatchListFresh

\* the getPrice call awaits an adapter
InFlight(r) == r.pc \notin {"idle", "done"}

\* a getPrice call starts in this step, on a cold or expired entry, while
\* call d for the same symbol awaits an adapter
StartsBeside(c, d) ==
    /\ c # d
    /\ calls[c].pc = "idle"
    /\ calls'[c].pc # "idle"
    /\ InFlight(calls[d])
    /\ calls'[c].sym = calls[d].sym
    /\ ~CacheFresh(priceCache[calls[d].sym], now)

\* every entry of the price cache is a valid Quote
C27_EntriesValid ==
    \A k \in PriceKeys : priceCache[k] # Null => ValidQuote(priceCache[k])

\* C27: a getPrice call that starts on a cold or expired entry while another
\* call for the same symbol is in progress runs its own cascade; each of the
\* calls returns the Quote its own cascade ended with; the cache entry is the
\* Quote of the call that wrote last; and every cache state in between holds
\* a valid Quote or no entry.
C27_OverlappingCalls ==
    /\ [][\A c, d \in DOMAIN calls :
            StartsBeside(c, d) => InFlight(calls'[c]) /\ Fetched(calls'[c])]_vars
    /\ [](\A c \in DOMAIN calls :
            (calls[c].pc = "done" /\ Fetched(calls[c])
                /\ calls[c].result # Null) =>
                calls[c].result = calls[c].outs[Len(calls[c].outs)])
    /\ [][\A c \in DOMAIN calls :
            SucceedsNow(c) => priceCache'[calls[c].sym] = calls'[c].result]_vars
    /\ []C27_EntriesValid

\* oracleProvider.get is called in this step
GetStep == gets' = gets + 1

\* C28: before the first call of oracleProvider.get there is no instance and
\* no timer; from the first call on there is the one instance made by that
\* call, startPriceUpdates has been called once and one timer has been
\* started; a later call, also one made while a query of an earlier call is
\* in progress, makes no instance, starts no timer and keeps the instance.
C28_Singleton ==
    /\ [](/\ constructed <= 1
          /\ timersCreated <= 1
          /\ gets = 0 =>
                oracleInstance = 0 /\ constructed = 0 /\ ops = 0 /\ timers = {}
          /\ gets >= 1 =>
                /\ oracleInstance = 1
                /\ constructed = 1
                /\ ops = 1
                /\ timersCreated = 1
                /\ Cardinality(timers) = 1
                /\ \A t \in timers : t.id = intervalHandle)
    /\ [][(GetStep /\ gets >= 1) =>
            /\ oracleInstance' = oracleInstance
            /\ constructed' = constructed
            /\ ops' = ops
            /\ timers' = timers
            /\ intervalHandle' = intervalHandle]_vars

\* C28 witness: a second call of oracleProvider.get was made while the
\* getPrice call of the first call's query was in progress; both queries are
\* in progress on the one instance
C28_Witness ==
    /\ gets = 2
    /\ constructed = 1
    /\ timersCreated = 1
    /\ InFlight(calls[1])
    /\ fcalls[1].pc = "fanout"

\* the symbol of a call that takes a step
SymOf(r, r2) == IF r.pc = "idle" THEN r2.sym ELSE r.sym

\* the timer and its handle stay as they are
TimerKept == timers' = timers /\ intervalHandle' = intervalHandle

\* C29: a step of getPrice(s) leaves the funding cache, the timer and the
\* price entries of the other symbols as they are, and changes the entry of s
\* only when it ends a cascade with a Quote; a call that returns null or is
\* answered from the cache leaves the price cache as it was.  A step of
\* getFundingRates(s) leaves the price cache, the timer and the funding
\* entries of the other symbols as they are.
C29_Frames ==
    /\ [][\A c \in CallIds :
            calls'[c] # calls[c] =>
                /\ fundingRateCache' = fundingRateCache
                /\ TimerKept
                /\ \A k \in PriceKeys :
                      k # SymOf(calls[c], calls'[c]) =>
                          priceCache'[k] = priceCache[k]
                /\ priceCache' # priceCache =>
                      /\ calls'[c].pc = "done"
                      /\ Fetched(calls'[c])
                      /\ calls'[c].result # Null]_vars
    /\ [][\A f \in FCallIds :
            fcalls'[f] # fcalls[f] =>
                /\ priceCache' = priceCache
                /\ TimerKept
                /\ \A k \in FundingKeys :
                      k # SymOf(fcalls[f], fcalls'[f]) =>
                          fundingRateCache'[k] = fundingRateCache[k]]_vars

\* C29 witness: with the timer running and entries of three symbols in both
\* caches, a getPrice call that found an expired entry for its symbol has
\* returned null and the entry is still there
C29_Witness ==
    /\ timers # {}
    /\ \A k \in {"BTC", "ETH", "SEI"} :
          priceCache[k] # Null /\ fundingRateCache[k] # Null
    /\ \E c \in CallIds :
          LET r == calls[c]
          IN  /\ r.pc = "done"
              /\ Fetched(r)
              /\ r.result = Null
              /\ r.cacheSeen # Null
              /\ priceCache[r.sym] = r.cacheSeen

\* the place of an exchange in the order Binance, Bybit, OKX
ExchangeRank(x) == CHOOSE i \in 1..Len(Exchanges) : Exchanges[i] = x

\* C30: every price entry under key k is a Quote with symbol k; every funding
\* entry under key k is a list of one to three FundingRates with symbol k,
\* from distinct exchanges, in the order Binance, Bybit, OKX.
C30_CacheShape ==
    /\ \A k \in PriceKeys :
          priceCache[k] # Null =>
              /\ priceCache[k].k = "quote"
              /\ priceCache[k].symbol = k
    /\ \A k \in FundingKeys :
          fundingRateCache[k] # Null =>
              LET l == fundingRateCache[k].list
              IN  /\ fundingRateCache[k].k = "list"
                  /\ Len(l) \in 1..Len(Exchanges)
                  /\ \A i \in 1..Len(l) :
                        /\ l[i].k = "rate"
                        /\ l[i].symbol = k
                        /\ l[i].exchange \in ExchangeSet
                  /\ \A i, j \in 1..Len(l) :
                        i < j => ExchangeRank(l[i].exchange)
                                   < ExchangeRank(l[j].exchange)

\* C30 witness: a run of the callback has ended; for one symbol its getPrice
\* call has stored a Quote of Pyth and its getFundingRates call a list from
\* which the Bybit entry is missing, beside the entries callers had stored
C30_Witness ==
    /\ Len(runs) = 1
    /\ tick = NoTick
    /\ \E k \in {"BTC", "ETH", "SEI"} :
          /\ priceCache[k] # Null
          /\ priceCache[k].source = "pyth"
          /\ fundingRateCache[k] # Null
          /\ Len(fundingRateCache[k].list) = 2
          /\ fundingRateCache[k].list[1].exchange = "Binance"
          /\ fundingRateCache[k].list[2].exchange = "OKX"
    /\ \E k \in {"BTC", "ETH", "SEI"} :
          /\ priceCache[k] # Null
          /\ fundingRateCache[k] # Null
          /\ Len(fundingRateCache[k].list) = 3

====
